---- MODULE Spec2Model ----
(***************************************************************************)
(* Device protocol core of the RV lighting controller:                     *)
(*   RVLightingController (discovery, one-shot response waiters, control   *)
(*   commands) and the page script's parserUtils codec and handleMessage.  *)
(* The page loads no jQuery, so addEventHandler takes its                  *)
(* document.body.addEventListener branch.                                  *)
(***************************************************************************)
EXTENDS Integers, Sequences, FiniteSets, TLC

(***************************************************************************)
(* Bounds of the model.                                                    *)
(***************************************************************************)
MaxCalls == 2        \* initialize() calls made on the controller
MaxCount == 2        \* largest light count the control unit reports
MaxDev == 2          \* device ids reported by the control unit: 1..MaxDev
MaxQueries == 1      \* getCurrentBrightness() calls made on the controller

DevIds == 1..MaxDev

(***************************************************************************)
(* Text helpers: strings that the code parses or formats are sequences of  *)
(* one-character strings.                                                  *)
(***************************************************************************)
Digits == <<"0", "1", "2", "3", "4", "5", "6", "7", "8", "9">>
HexDigits == <<"0", "1", "2", "3", "4", "5", "6", "7", "8", "9",
               "A", "B", "C", "D", "E", "F">>

\* The value JavaScript calls NaN (outside every number the model produces).
NaN == -1000000

IsDigit(ch) == \E d \in 1..10 : Digits[d] = ch
DigitVal(ch) == (CHOOSE d \in 1..10 : Digits[d] = ch) - 1

RECURSIVE LeadDigits(_)
LeadDigits(s) ==
    IF s = <<>> \/ ~IsDigit(Head(s)) THEN <<>>
    ELSE <<Head(s)>> \o LeadDigits(Tail(s))

RECURSIVE DecVal(_)
DecVal(ds) ==
    IF ds = <<>> THEN 0
    ELSE 10 * DecVal(SubSeq(ds, 1, Len(ds) - 1)) + DigitVal(ds[Len(ds)])

\* parseInt(s): optional sign, then the longest run of decimal digits.
ParseInt(s) ==
    LET signed == s # <<>> /\ Head(s) \in {"-", "+"}
        body == IF signed THEN Tail(s) ELSE s
        ds == LeadDigits(body)
    IN  IF ds = <<>> THEN NaN
        ELSE IF signed /\ Head(s) = "-" THEN 0 - DecVal(ds) ELSE DecVal(ds)

\* n.toString(10) for n >= 0
RECURSIVE DecStr(_)
DecStr(n) ==
    IF n < 10 THEN <<Digits[n + 1]>>
    ELSE DecStr(n \div 10) \o <<Digits[(n % 10) + 1]>>

\* s.replace(/ch/g, by): replaces every occurrence
RECURSIVE ReplaceAll(_, _, _)
ReplaceAll(s, ch, by) ==
    IF s = <<>> THEN <<>>
    ELSE <<IF Head(s) = ch THEN by ELSE Head(s)>> \o ReplaceAll(Tail(s), ch, by)

\* s.replace(ch, ""): removes the first occurrence only
RECURSIVE RemoveFirst(_, _)
RemoveFirst(s, ch) ==
    IF s = <<>> THEN <<>>
    ELSE IF Head(s) = ch THEN Tail(s)
    ELSE <<Head(s)>> \o RemoveFirst(Tail(s), ch)

(***************************************************************************)
(* parserUtils: the command codec.                                         *)
(***************************************************************************)
RECURSIVE BitAnd(_, _)
BitAnd(a, b) ==
    IF a = 0 \/ b = 0 THEN 0
    ELSE (a % 2) * (b % 2) + 2 * BitAnd(a \div 2, b \div 2)

RECURSIVE BitOr(_, _)
BitOr(a, b) ==
    IF a = 0 THEN b
    ELSE IF b = 0 THEN a
    ELSE (IF a % 2 = 1 \/ b % 2 = 1 THEN 1 ELSE 0) + 2 * BitOr(a \div 2, b \div 2)

\* x & mask on 32-bit two's complement integers, for a mask below 2^16: only
\* the low 16 bits of x matter; NaN converts to 0.
And32(x, mask) == IF x = NaN THEN 0 ELSE BitAnd(x % 65536, mask)

\* Math.round on the integers the model passes
Round(x) == x

ESET_INSTANCE(instance) == And32(Round(instance), 255) * 256
\* Mutant of ESET_BRIGHTNESS: the codec limits the level to 0..100.
ESET_BRIGHTNESS_Clamped(brightness) ==
    And32(Round(IF brightness < 0 THEN 0 ELSE IF brightness > 100 THEN 100
                ELSE brightness), 255)
ESET_BRIGHTNESS(brightness) == And32(Round(brightness), 255)
ESET_LEVEL(level) == And32(Round(level), 15)

\* n.toString(16).toUpperCase() for n >= 0
RECURSIVE ToHex(_)
ToHex(n) ==
    IF n < 16 THEN <<HexDigits[n + 1]>>
    ELSE ToHex(n \div 16) \o <<HexDigits[(n % 16) + 1]>>

RECURSIVE Zeros(_)
Zeros(k) == IF k = 0 THEN <<>> ELSE <<"0">> \o Zeros(k - 1)

\* The text that stands for a thrown Error.
Thrown == <<"throw">>

\* upad(n, targetLength): left-pads with zeros, throws on a longer text
upad(n, targetLength) ==
    IF Len(n) > targetLength THEN Thrown
    ELSE Zeros(targetLength - Len(n)) \o n

RECURSIVE OrAll(_)
OrAll(args) ==
    IF Len(args) = 1 THEN args[1]
    ELSE BitOr(OrAll(SubSeq(args, 1, Len(args) - 1)), args[Len(args)])

\* Mutant of packEvent: only the last field is packed.
packEvent_Last(args) ==
    LET phex == upad(ToHex(args[Len(args)]), 4)
    IN  IF phex = Thrown THEN Thrown ELSE <<"0", "x">> \o phex

\* packEvent(...args): OR of the fields as 0x and four upper-case hex digits
packEvent(args) ==
    LET phex == upad(ToHex(OrAll(args)), 4)
    IN  IF phex = Thrown THEN Thrown ELSE <<"0", "x">> \o phex

\* The value of a text of hex digits (reads a token back).
HexDigitVal(ch) == (CHOOSE d \in 1..16 : HexDigits[d] = ch) - 1
RECURSIVE HexVal(_)
HexVal(s) ==
    IF s = <<>> THEN 0
    ELSE 16 * HexVal(SubSeq(s, 1, Len(s) - 1)) + HexDigitVal(s[Len(s)])

(***************************************************************************)
(* Inbound messages KEY=VALUE.  A key is an event name with its index.     *)
(***************************************************************************)
CountTag == [name |-> "GET_LIGHT_COUNT", i |-> 0]
ObjectTag(i) == [name |-> "GET_LIGHT_OBJECT", i |-> i]
BrightnessTag(idx) == [name |-> "NEWMAR_DIMMER_BRIGHTNESS", i |-> idx]

\* The JSON text of one light object as the control unit reports it; the
\* instance differs from the index.
DeviceObj(d) ==
    [ok |-> TRUE, name |-> <<"L", "|", Digits[d + 1]>>, index |-> d,
     instance |-> d + 16, command |-> d % 2, room_loc |-> d % 3]
\* A text JSON.parse rejects.
Malformed ==
    [ok |-> FALSE, name |-> <<>>, index |-> 0, instance |-> 0, command |-> 0,
     room_loc |-> 0]

CountValues == {DecStr(n) : n \in 0..MaxCount}
ObjectValues == {DeviceObj(d) : d \in DevIds} \cup {Malformed}
BrightnessValues == {<<"0", "%">>, <<"4", "0", "%">>}

Messages ==
    {[tag |-> CountTag, val |-> v] : v \in CountValues}
    \cup {[tag |-> ObjectTag(i), val |-> v] : i \in 0..(MaxCount - 1), v \in ObjectValues}
    \cup {[tag |-> BrightnessTag(d), val |-> v] : d \in DevIds, v \in BrightnessValues}

DiscoveryMessages == {m \in Messages : m.tag.name # "NEWMAR_DIMMER_BRIGHTNESS"}

(***************************************************************************)
(* State of one RVLightingController and of document.body's listeners.     *)
(***************************************************************************)
VARIABLES
    lights,         \* this.lights: Map in insertion order, as a sequence of light records
    isInitialized,  \* this.isInitialized
    listeners,      \* listeners registered on document.body, in registration order
    calls,          \* one record per initialize() call: its promise, its 10 s timer, its closure
    queries,        \* one record per getCurrentBrightness() call: its promise and its 5 s timer
    fired,          \* per registered waiter (by id): how many times its handler has run
    sent,           \* texts handed to sendWSData by the last step
    lastOp,         \* the last synchronous call with its arguments and return value
    scenes,         \* this.scenes: Map in insertion order, as a sequence of scene records
    schedules,      \* this.schedules: Map in insertion order, as a sequence of schedule records
    activeSchedules,    \* this.activeSchedules: Set of schedule names
    scheduleIntervals,  \* this.scheduleIntervals: Map name -> interval id, as a sequence
    intervals,      \* the live setInterval timers of the page: id, closure, next due time
    saves,          \* one record per saveScene() call: its promise and its loop position
    storage,        \* localStorage entry 'rv_lighting_data'
    codec,          \* inputs and outputs of one evaluation of the parserUtils codec
    clock,          \* the wall clock: its value at the start and the time elapsed since
    ticks,          \* one record per run of an interval callback, in order
    cleaned,        \* cleanup() has returned
    file,           \* the file the page's exportConfig() has written last
    page,           \* the page's connection: its sockets, timers and retired controllers
    server          \* the server's data file and the requests it is handling

vars == <<lights, isInitialized, listeners, calls, queries, fired, sent, lastOp,
          scenes, schedules, activeSchedules, scheduleIntervals, intervals,
          saves, storage, codec, clock, ticks, cleaned, file, page, server>>

\* The variables of the controller and the page as one record, so that
\* handlers compose.
State ==
    [lights |-> lights, isInitialized |-> isInitialized, listeners |-> listeners,
     calls |-> calls, queries |-> queries, fired |-> fired, sent |-> sent,
     scenes |-> scenes, schedules |-> schedules,
     activeSchedules |-> activeSchedules, scheduleIntervals |-> scheduleIntervals,
     intervals |-> intervals, saves |-> saves, storage |-> storage,
     ticks |-> ticks, cleaned |-> cleaned, file |-> file, clock |-> clock,
     page |-> page]

\* S is evaluated once.
Becomes(S0) ==
    \E S \in {S0} :
        /\ lights' = S.lights
        /\ isInitialized' = S.isInitialized
        /\ listeners' = S.listeners
        /\ calls' = S.calls
        /\ queries' = S.queries
        /\ fired' = S.fired
        /\ sent' = S.sent
        /\ scenes' = S.scenes
        /\ schedules' = S.schedules
        /\ activeSchedules' = S.activeSchedules
        /\ scheduleIntervals' = S.scheduleIntervals
        /\ intervals' = S.intervals
        /\ saves' = S.saves
        /\ storage' = S.storage
        /\ ticks' = S.ticks
        /\ cleaned' = S.cleaned
        /\ file' = S.file
        /\ page' = S.page
        /\ server' = server
        /\ codec' = codec
        /\ clock' = clock

\* A call: its name, its numeric argument id, its text argument key, a
\* second numeric argument (or a count the call computed) and its return value.
OpKey(name, id, key, arg, ret) ==
    [op |-> name, id |-> id, key |-> key, arg |-> arg, ret |-> ret]
Op(name, id, arg, ret) == OpKey(name, id, "", arg, ret)
\* Steps that are not calls with a return value (messages, timers, promises).
NoOp == Op("none", 0, 0, TRUE)

\* No codec evaluation.
NoCodec == [instance |-> 0, brightness |-> 0, level |-> 0, done |-> FALSE,
            fields |-> <<>>, tokens |-> <<>>]
\* localStorage has no entry 'rv_lighting_data'.
NoStorage == [present |-> FALSE, scenes |-> <<>>, schedules |-> <<>>]
\* The page before connect() is called: no socket, no timer, no controller.
NoPage ==
    [client |-> 0,                 \* client: 0 is null, else the socket's position in socks
     socks |-> <<>>,               \* readyState of every WebSocket the page has created
     connectionState |-> "disconnected",
     reconnectAttempts |-> 0,
     wsReady |-> FALSE,
     connectTimers |-> 0,          \* pending setTimeout(() => connect(), 5000)
     helloTimers |-> 0,            \* pending setTimeout of the handshake
     pingTimers |-> 0,             \* live setInterval timers of the ping
     controllers |-> 0,            \* RVLightingController objects created so far
     old |-> <<>>]                 \* the controllers lightingController no longer refers to

\* The server before any request: lighting_data.json does not exist.
NoServer ==
    [dataFile |-> [present |-> FALSE, scenes |-> <<>>, schedules |-> <<>>],
     requests |-> <<>>]

\* No file has been exported.
NoFile == [present |-> FALSE, scenes |-> <<>>, schedules |-> <<>>,
           from |-> [scenes |-> <<>>, schedules |-> <<>>]]
\* A Monday, 06:59:00, nothing elapsed.  day is Date.prototype.getDay() at
\* the start (0 is Sunday), minute the minute of that day, t the time
\* elapsed since, in slots of a third of a minute.
Monday0659 == [day |-> 1, minute |-> 419, t |-> 0]

Keys(ls) == [k \in 1..Len(ls) |-> ls[k].index]
HasLight(ls, key) == \E k \in 1..Len(ls) : ls[k].index = key
LightPos(ls, key) == CHOOSE k \in 1..Len(ls) : ls[k].index = key

\* Mutant of MapSet: a new key is put first instead of last.
MapSet_Front(ls, key, rec) ==
    IF HasLight(ls, key) THEN [ls EXCEPT ![LightPos(ls, key)] = rec]
    ELSE <<rec>> \o ls

\* Map.prototype.set: an existing key keeps its position, a new key goes last.
MapSet(ls, key, rec) ==
    IF HasLight(ls, key) THEN [ls EXCEPT ![LightPos(ls, key)] = rec]
    ELSE Append(ls, rec)

Init ==
    /\ lights = <<>>
    /\ isInitialized = FALSE
    /\ listeners = <<>>
    /\ calls = <<>>
    /\ queries = <<>>
    /\ fired = <<>>
    /\ sent = <<>>
    /\ lastOp = NoOp
    /\ scenes = <<>>
    /\ schedules = <<>>
    /\ activeSchedules = {}
    /\ scheduleIntervals = <<>>
    /\ intervals = {}
    /\ saves = <<>>
    /\ storage = NoStorage
    /\ codec = NoCodec
    /\ clock = Monday0659
    /\ ticks = <<>>
    /\ cleaned = FALSE
    /\ file = NoFile
    /\ page = NoPage
    /\ server = NoServer

(***************************************************************************)
(* Correlation: one-shot waiters on document.body.                         *)
(***************************************************************************)
\* Mutant of addEventHandler: the once option is not passed on.
addEventHandler_Permanent(S, tag, kind, owner, once) ==
    [S EXCEPT
        !.listeners = Append(@, [id |-> Len(S.fired) + 1, tag |-> tag, kind |-> kind,
                                 owner |-> owner, once |-> FALSE]),
        !.fired = Append(@, 0)]

\* addEventHandler(eventName, handler, once): without jQuery the handler is
\* wrapped and registered with {once}; only permanent handlers are recorded
\* in this.eventHandlers.
addEventHandler(S, tag, kind, owner, once) ==
    [S EXCEPT
        !.listeners = Append(@, [id |-> Len(S.fired) + 1, tag |-> tag, kind |-> kind,
                                 owner |-> owner, once |-> once]),
        !.fired = Append(@, 0)]

sendWSData(S, text) == [S EXCEPT !.sent = Append(@, text)]

\* resolve/reject of a promise: only the first settlement counts.
Settle(p, outcome) == IF p = "pending" THEN outcome ELSE p

(***************************************************************************)
(* Discovery: initialize() and the handlers it registers.                  *)
(***************************************************************************)
NewCall(S) ==
    [promise |-> "pending",   \* the promise initialize() returns
     initAtCall |-> S.isInitialized,  \* this.isInitialized when initialize() was called
     before |-> Keys(S.lights),       \* the registry's ids when initialize() was called
     timer |-> TRUE,          \* the 10 s setTimeout has not fired yet
     rejectCalled |-> FALSE,  \* the timer callback has called reject
     counted |-> FALSE,       \* lightCountHandler of this call has run
     totalLights |-> 0,       \* closure variable totalLights
     receivedCount |-> 0,     \* closure variable receivedCount
     failed |-> 0,            \* object responses of this call that failed to parse
     arrival |-> <<>>,        \* ids stored by this call's object handlers, in arrival order
     arrivalTags |-> <<>>,    \* request indices of those responses, in arrival order
     countedAtTimer |-> FALSE, \* counted when the timer fired
     atTimer |-> 0,           \* receivedCount when the timer fired
     failedAtTimer |-> 0]     \* failed when the timer fired

\* The record stored for one parsed light object.
LightData(obj) ==
    [name |-> ReplaceAll(obj.name, "|", " "), index |-> obj.index,
     instance |-> obj.instance, command |-> obj.command,
     room |-> obj.room_loc, isDimmer |-> (obj.command = 0), currentBrightness |-> 0]

\* this.lights.set(key, lightData) puts a new object in the place of the one
\* stored under key.  A saveScene call that awaits the query of that light
\* holds the replaced object in its loop variable: from now on nothing
\* writes to that object (every writer goes through this.lights.get), so the
\* call keeps it as it is at this moment.
Replaced(S, key) ==
    IF ~HasLight(S.lights, key) THEN S.saves
    ELSE [s \in 1..Len(S.saves) |->
            LET sv == S.saves[s]
            IN  IF /\ sv.promise = "pending" /\ sv.query # 0 /\ sv.light = <<>>
                   /\ S.lights[sv.pos].index = key
                THEN [sv EXCEPT !.light = <<S.lights[sv.pos]>>]
                ELSE sv]

\* lightObjectHandler of call c, run with the text of one object response.
lightObjectHandler(S, c, i, val) ==
    IF ~val.ok
    THEN \* JSON.parse throws; the catch logs the error
         [S EXCEPT !.calls[c].failed = @ + 1]
    ELSE LET received == S.calls[c].receivedCount + 1
             done == received = S.calls[c].totalLights
         IN  [S EXCEPT
                !.lights = MapSet(@, val.index, LightData(val)),
                !.saves = Replaced(S, val.index),
                !.calls[c].receivedCount = received,
                !.calls[c].arrival = Append(@, val.index),
                !.calls[c].arrivalTags = Append(@, i),
                !.isInitialized = IF done THEN TRUE ELSE @,
                !.calls[c].promise = IF done THEN Settle(@, "resolved") ELSE @]

\* The for loop of lightCountHandler from index i on: one waiter and one
\* request per index.
RECURSIVE RequestObjects(_, _, _, _)
RequestObjects(S, c, i, total) ==
    IF ~(i < total) THEN S
    ELSE RequestObjects(
            sendWSData(addEventHandler(S, ObjectTag(i), "object", c, TRUE),
                       [cmd |-> "GET_LIGHT_OBJECT", arg |-> DecStr(i)]),
            c, i + 1, total)

\* Mutant of lightCountHandler: no special case for a count of 0.
lightCountHandler_NoZeroCase(S, c, val) ==
    LET total == ParseInt(val)
        S1 == [S EXCEPT !.calls[c].counted = TRUE,
                        !.calls[c].totalLights = total,
                        !.calls[c].receivedCount = 0]
    IN  RequestObjects(S1, c, 0, total)

\* lightCountHandler of call c, run with the text of the count response.
lightCountHandler(S, c, val) ==
    LET total == ParseInt(val)
        S1 == [S EXCEPT !.calls[c].counted = TRUE,
                        !.calls[c].totalLights = total,
                        !.calls[c].receivedCount = 0]
    IN  IF total = 0
        THEN [S1 EXCEPT !.isInitialized = TRUE,
                        !.calls[c].promise = Settle(@, "resolved")]
        ELSE RequestObjects(S1, c, 0, total)

(***************************************************************************)
(* Brightness query: the handler getCurrentBrightness() registers.         *)
(***************************************************************************)
NewQuery(idx) ==
    [lightIndex |-> idx,
     promise |-> "pending",   \* the promise getCurrentBrightness() returns
     timer |-> TRUE]          \* the 5 s setTimeout is pending

\* Mutant of brightnessHandler: the stored scenes hold the registry's own
\* objects, so the level written to a light shows in every scene member that
\* stands for it.
brightnessHandler_Live(S, q, val) ==
    LET level == ParseInt(RemoveFirst(val, "%"))
        idx == S.queries[q].lightIndex
        S1 == [S EXCEPT !.queries[q].timer = FALSE,
                        !.queries[q].promise = Settle(@, "resolved")]
    IN  IF \E k \in 1..Len(S.lights) : S.lights[k].index = idx
        THEN [S1 EXCEPT
                !.lights = [k \in 1..Len(@) |->
                              IF @[k].index = idx
                              THEN [@[k] EXCEPT !.currentBrightness = level] ELSE @[k]],
                !.scenes = [n \in 1..Len(@) |->
                              [@[n] EXCEPT !.lights =
                                  [m \in 1..Len(@) |->
                                      IF @[m].index = idx
                                      THEN [@[m] EXCEPT !.brightness = level]
                                      ELSE @[m]]]]]
        ELSE S1

brightnessHandler(S, q, val) ==
    LET level == ParseInt(RemoveFirst(val, "%"))
        idx == S.queries[q].lightIndex
        S1 == [S EXCEPT !.queries[q].timer = FALSE,          \* clearTimeout
                        !.queries[q].promise = Settle(@, "resolved")]
    IN  IF HasLight(S.lights, idx)
        THEN [S1 EXCEPT !.lights[LightPos(S.lights, idx)].currentBrightness = level]
        ELSE S1

(***************************************************************************)
(* Dispatch of one inbound message.                                        *)
(***************************************************************************)
RunHandler(S, l, val) ==
    LET S1 == [S EXCEPT !.fired[l.id] = @ + 1]
    IN  CASE l.kind = "count" -> lightCountHandler(S1, l.owner, val)
          [] l.kind = "object" -> lightObjectHandler(S1, l.owner, l.tag.i, val)
          [] l.kind = "brightness" -> brightnessHandler(S1, l.owner, val)

RECURSIVE RunAll(_, _, _)
RunAll(S, ls, val) ==
    IF ls = <<>> THEN S
    ELSE RunAll(RunHandler(S, Head(ls), val), Tail(ls), val)

\* document.body.dispatchEvent(new CustomEvent(tag, {detail: val})): every
\* listener registered for the event name runs, in registration order; a
\* {once: true} listener is removed when it is invoked.
dispatchEvent(S, tag, val) ==
    LET hit == SelectSeq(S.listeners, LAMBDA l : l.tag = tag)
        rest == SelectSeq(S.listeners, LAMBDA l : ~(l.tag = tag /\ l.once))
    IN  RunAll([S EXCEPT !.listeners = rest], hit, val)

\* handleMessage for a KEY=VALUE message: one dispatch, and a second one for
\* light object responses.
handleMessage(S, tag, val) ==
    LET S1 == dispatchEvent(S, tag, val)
    IN  IF tag.name = "GET_LIGHT_OBJECT" THEN dispatchEvent(S1, tag, val) ELSE S1

(***************************************************************************)
(* Control: setLightBrightness.                                            *)
(***************************************************************************)
Max(a, b) == IF a > b THEN a ELSE b
Min(a, b) == IF a < b THEN a ELSE b

\* Mutant of Clamp: the upper limit is missing.
Clamp_NoUpper(brightness) == Max(0, brightness)

\* Math.max(0, Math.min(100, brightness)); NaN stays NaN
Clamp(brightness) ==
    IF brightness = NaN THEN NaN ELSE Max(0, Min(100, brightness))

\* Math.round((brightness / 100) * 200); NaN stays NaN
ScaledBrightness(brightness) ==
    IF brightness = NaN THEN NaN ELSE (brightness * 200 + 50) \div 100

DimmerCmd == "HMSEVENT=ENEWMARDIMMERPARSER_SET_BRIGHTNESS_NONSCALED"
SwitchCmd == "HMSEVENT=ENEWMARDIMMERPARSER_TURN_ON_OFF"

\* Mutant of setLightBrightness: the instance field of the light is encoded.
setLightBrightness_ByInstance(S, lightIndex, brightness) ==
    IF ~HasLight(S.lights, lightIndex)
    THEN [S |-> S, ret |-> FALSE]
    ELSE LET pos == LightPos(S.lights, lightIndex)
             light == S.lights[pos]
             b == Clamp(brightness)
             token == IF light.isDimmer
                      THEN packEvent(<<ESET_INSTANCE(light.instance),
                                       ESET_BRIGHTNESS(ScaledBrightness(b))>>)
                      ELSE packEvent(<<ESET_INSTANCE(light.instance),
                                       ESET_LEVEL(IF b > 0 THEN 1 ELSE 0)>>)
             cmd == IF light.isDimmer THEN DimmerCmd ELSE SwitchCmd
         IN  IF token = Thrown
             THEN [S |-> S, ret |-> FALSE]
             ELSE [S |-> [sendWSData(S, [cmd |-> cmd, arg |-> token])
                            EXCEPT !.lights[pos].currentBrightness = b],
                   ret |-> TRUE]

\* setLightBrightness(lightIndex, brightness): the new state and the
\* returned boolean.
setLightBrightness(S, lightIndex, brightness) ==
    IF ~HasLight(S.lights, lightIndex)
    THEN [S |-> S, ret |-> FALSE]
    ELSE LET pos == LightPos(S.lights, lightIndex)
             light == S.lights[pos]
             b == Clamp(brightness)
             token == IF light.isDimmer
                      THEN packEvent(<<ESET_INSTANCE(lightIndex),
                                       ESET_BRIGHTNESS(ScaledBrightness(b))>>)
                      ELSE packEvent(<<ESET_INSTANCE(lightIndex),
                                       ESET_LEVEL(IF b > 0 THEN 1 ELSE 0)>>)
             cmd == IF light.isDimmer THEN DimmerCmd ELSE SwitchCmd
         IN  IF token = Thrown
             THEN [S |-> S, ret |-> FALSE]      \* the catch block
             ELSE [S |-> [sendWSData(S, [cmd |-> cmd, arg |-> token])
                            EXCEPT !.lights[pos].currentBrightness = b],
                   ret |-> TRUE]

(***************************************************************************)
(* Control: toggleLight, allLightsOff, allLightsOn.                        *)
(***************************************************************************)
\* toggleLight(lightIndex, state): state is "null", "true" or "false".
toggleLight(S, lightIndex, state) ==
    IF ~HasLight(S.lights, lightIndex)
    THEN [S |-> S, ret |-> FALSE]
    ELSE LET light == S.lights[LightPos(S.lights, lightIndex)]
             on == IF state = "null" THEN light.currentBrightness = 0
                   ELSE state = "true"
         IN  setLightBrightness(S, lightIndex, IF on THEN 100 ELSE 0)

\* for (const light of this.lights.values()) setLightBrightness(light.index, level)
RECURSIVE setEach(_, _, _)
setEach(S, k, level) ==
    IF k > Len(S.lights) THEN S
    ELSE setEach(setLightBrightness(S, S.lights[k].index, level).S, k + 1, level)

allLightsOff(S) == setEach(S, 1, 0)
allLightsOn(S) == setEach(S, 1, 100)

(***************************************************************************)
(* Maps keyed by name (this.scenes, this.schedules, this.scheduleIntervals)*)
(* and the localStorage entry.                                             *)
(***************************************************************************)
HasName(m, n) == \E k \in 1..Len(m) : m[k].name = n
NamePos(m, n) == CHOOSE k \in 1..Len(m) : m[k].name = n
\* Map.prototype.set
NameSet(m, n, rec) ==
    IF HasName(m, n) THEN [m EXCEPT ![NamePos(m, n)] = rec] ELSE Append(m, rec)
\* Map.prototype.delete
NameDelete(m, n) == SelectSeq(m, LAMBDA e : e.name # n)

\* JSON.stringify writes NaN as null.
JsonNull == -1000001
JsonNumber(x) == IF x = NaN THEN JsonNull ELSE x

RECURSIVE JsonMembers(_)
JsonMembers(ms) ==
    IF ms = <<>> THEN <<>>
    ELSE <<[Head(ms) EXCEPT !.brightness = JsonNumber(@)]>> \o JsonMembers(Tail(ms))

RECURSIVE JsonScenes(_)
JsonScenes(scs) ==
    IF scs = <<>> THEN <<>>
    ELSE <<[Head(scs) EXCEPT !.lights = JsonMembers(@)]>> \o JsonScenes(Tail(scs))

\* saveToStorage(): the entries of both maps as JSON text (the created and
\* lastSaved time stamps are left out).
saveToStorage(S) ==
    [S EXCEPT !.storage = [present |-> TRUE, scenes |-> JsonScenes(S.scenes),
                           schedules |-> S.schedules]]

(***************************************************************************)
(* Scenes: saveScene as a process (it awaits one brightness query per      *)
(* light), loadScene, deleteScene, importConfig.                           *)
(***************************************************************************)
\* roomFilter = null
NoRoom == -1

\* getCurrentBrightness(lightIndex): registers the waiter, sends the query
\* and arms the 5 s timer; the query's id is its position in queries.
getCurrentBrightness(S, lightIndex) ==
    LET q == Len(S.queries) + 1
        S1 == [S EXCEPT !.queries = Append(@, NewQuery(lightIndex))]
        S2 == addEventHandler(S1, BrightnessTag(lightIndex), "brightness", q, TRUE)
    IN  sendWSData(S2, [cmd |-> "NEWMAR_DIMMER_BRIGHTNESS", arg |-> DecStr(lightIndex)])

NewSave(sceneName, roomFilter) ==
    [name |-> sceneName,
     room |-> roomFilter,
     promise |-> "pending",   \* the promise saveScene() returns: pending, "true" or "false"
     pos |-> 0,               \* entries of this.lights the for-of iterator has passed
     light |-> <<>>,          \* the loop variable's object, once the registry holds another
     lightStates |-> <<>>,    \* local lightStates
     query |-> 0,             \* the query this call awaits (0: none)
     asked |-> <<>>]          \* the queries this call has awaited, in order

\* roomFilter !== null && light.room !== roomFilter
Skips(light, roomFilter) == roomFilter # NoRoom /\ light.room # roomFilter

\* The entry pushed on lightStates.
Member(light) ==
    [index |-> light.index, name |-> light.name,
     brightness |-> light.currentBrightness, room |-> light.room]

\* The for-of loop of saveScene from the iterator's position up to the next
\* await, or to the end: store the scene, saveToStorage, return true.
RECURSIVE saveLoop(_, _)
saveLoop(S, s) ==
    LET sv == S.saves[s]
        next == sv.pos + 1
    IN  IF next > Len(S.lights)
        THEN LET scene == [name |-> sv.name, room |-> sv.room, lights |-> sv.lightStates]
                 S1 == saveToStorage([S EXCEPT !.scenes = NameSet(@, sv.name, scene)])
             IN  [S1 EXCEPT !.saves[s].promise = "true", !.saves[s].query = 0]
        ELSE LET light == S.lights[next]
                 S1 == [S EXCEPT !.saves[s].pos = next]
                 q == Len(S.queries) + 1
             IN  IF Skips(light, sv.room) THEN saveLoop(S1, s)
                 ELSE [getCurrentBrightness(S1, light.index) EXCEPT
                          !.saves[s].query = q,
                          !.saves[s].asked = Append(@, q)]

\* Mutant of saveResume: a rejected query is not caught, the outer catch
\* returns false.
saveResume_Abort(S, s) ==
    LET sv == S.saves[s]
        light == IF sv.light # <<>> THEN sv.light[1] ELSE S.lights[sv.pos]
    IN  IF S.queries[sv.query].promise = "rejected"
        THEN [S EXCEPT !.saves[s].promise = "false", !.saves[s].query = 0]
        ELSE saveLoop([S EXCEPT !.saves[s].lightStates = Append(@, Member(light)),
                                !.saves[s].light = <<>>,
                                !.saves[s].query = 0], s)

\* saveScene after its await: the query has resolved, or it was rejected
\* and the catch callback has logged it.  light is the object the iterator
\* yielded: the registry entry it stands on, unless lightObjectHandler has
\* replaced that entry since.
saveResume(S, s) ==
    LET sv == S.saves[s]
        light == IF sv.light # <<>> THEN sv.light[1] ELSE S.lights[sv.pos]
    IN  saveLoop([S EXCEPT !.saves[s].lightStates = Append(@, Member(light)),
                           !.saves[s].light = <<>>,
                           !.saves[s].query = 0], s)

\* saveScene(sceneName, roomFilter) up to its first await.
saveScene(S, sceneName, roomFilter) ==
    LET s == Len(S.saves) + 1
    IN  IF ~S.isInitialized \/ sceneName = ""
        THEN [S EXCEPT !.saves =
                 Append(@, [NewSave(sceneName, roomFilter) EXCEPT !.promise = "false"])]
        ELSE saveLoop([S EXCEPT !.saves = Append(@, NewSave(sceneName, roomFilter))], s)

\* The saveScene calls whose awaited query has settled.
Resumable(S) ==
    {s \in 1..Len(S.saves) :
        /\ S.saves[s].promise = "pending"
        /\ S.saves[s].query # 0
        /\ S.queries[S.saves[s].query].promise # "pending"}

\* The promise jobs that follow a callback: every saveScene call whose query
\* the callback settled goes on, in the order the queries settled.
RECURSIVE RunMicrotasks(_)
RunMicrotasks(S) ==
    LET rs == Resumable(S)
    IN  IF rs = {} THEN S
        ELSE LET s == CHOOSE x \in rs : \A y \in rs : S.saves[x].query <= S.saves[y].query
             IN  RunMicrotasks(saveResume(S, s))

\* The for loop of loadScene: the new state and successCount.
RECURSIVE applyMembers(_, _)
applyMembers(S, ms) ==
    IF ms = <<>> THEN [S |-> S, count |-> 0]
    ELSE LET r == setLightBrightness(S, Head(ms).index, Head(ms).brightness)
             rest == applyMembers(r.S, Tail(ms))
         IN  [S |-> rest.S, count |-> rest.count + (IF r.ret THEN 1 ELSE 0)]

\* Mutant of loadScene: success means the scene has members.
loadScene_AnyMember(S, sceneName) ==
    IF ~HasName(S.scenes, sceneName)
    THEN [S |-> S, ret |-> FALSE, successCount |-> 0]
    ELSE LET scene == S.scenes[NamePos(S.scenes, sceneName)]
             r == applyMembers(S, scene.lights)
         IN  [S |-> r.S, ret |-> Len(scene.lights) > 0, successCount |-> r.count]

\* Mutant of loadScene: the lights are switched off before the members are
\* applied.
loadScene_OthersOff(S, sceneName) ==
    IF ~HasName(S.scenes, sceneName)
    THEN [S |-> S, ret |-> FALSE, successCount |-> 0]
    ELSE LET scene == S.scenes[NamePos(S.scenes, sceneName)]
             r == applyMembers(allLightsOff(S), scene.lights)
         IN  [S |-> r.S, ret |-> r.count > 0, successCount |-> r.count]

\* loadScene(sceneName): the new state, the returned boolean and the local
\* successCount.
loadScene(S, sceneName) ==
    IF ~HasName(S.scenes, sceneName)
    THEN [S |-> S, ret |-> FALSE, successCount |-> 0]
    ELSE LET scene == S.scenes[NamePos(S.scenes, sceneName)]
             r == applyMembers(S, scene.lights)
         IN  [S |-> r.S, ret |-> r.count > 0, successCount |-> r.count]

deleteScene(S, sceneName) ==
    IF HasName(S.scenes, sceneName)
    THEN [S |-> saveToStorage([S EXCEPT !.scenes = NameDelete(@, sceneName)]),
          ret |-> TRUE]
    ELSE [S |-> S, ret |-> FALSE]

\* for (const item of items) if (item.name) map.set(item.name, item)
RECURSIVE SetAll(_, _)
SetAll(m, items) ==
    IF items = <<>> THEN m
    ELSE SetAll(IF Head(items).name # "" THEN NameSet(m, Head(items).name, Head(items))
                ELSE m,
                Tail(items))

\* importConfig(config): config.valid is false for a value that is no object.
importConfig(S, config) ==
    IF ~config.valid
    THEN [S |-> S, ret |-> FALSE]
    ELSE [S |-> saveToStorage([S EXCEPT !.scenes = SetAll(@, config.scenes),
                                        !.schedules = SetAll(@, config.schedules)]),
          ret |-> TRUE]

(***************************************************************************)
(* Schedules: createSchedule, activateSchedule, deactivateSchedule.        *)
(***************************************************************************)
AllDays == <<"mon", "tue", "wed", "thu", "fri", "sat", "sun">>
\* A property the caller left out.
Undefined == "undefined"

\* One event as createSchedule stores it.
ScheduleEvent(event) ==
    [time |-> event.time,
     days |-> IF event.hasDays THEN event.days ELSE AllDays,
     scene |-> event.scene,
     action |-> IF event.action \in {Undefined, ""} THEN "load_scene" ELSE event.action]

RECURSIVE ScheduleEvents(_)
ScheduleEvents(events) ==
    IF events = <<>> THEN <<>>
    ELSE <<ScheduleEvent(Head(events))>> \o ScheduleEvents(Tail(events))

\* Mutant of createSchedule: a schedule that exists is left as it is.
createSchedule_KeepsExisting(S, scheduleName, events) ==
    IF scheduleName = ""
    THEN [S |-> S, ret |-> FALSE]
    ELSE IF HasName(S.schedules, scheduleName) THEN [S |-> saveToStorage(S), ret |-> TRUE]
    ELSE LET schedule == [name |-> scheduleName, enabled |-> TRUE,
                          events |-> ScheduleEvents(events)]
         IN  [S |-> saveToStorage([S EXCEPT !.schedules = NameSet(@, scheduleName, schedule)]),
              ret |-> TRUE]

createSchedule(S, scheduleName, events) ==
    IF scheduleName = ""
    THEN [S |-> S, ret |-> FALSE]
    ELSE LET schedule == [name |-> scheduleName, enabled |-> TRUE,
                          events |-> ScheduleEvents(events)]
         IN  [S |-> saveToStorage([S EXCEPT !.schedules = NameSet(@, scheduleName, schedule)]),
              ret |-> TRUE]

\* setInterval returns a positive id no live timer has.
FreshInterval(live) ==
    CHOOSE n \in 1..(Cardinality(live) + 1) :
        n \notin live /\ \A k \in 1..(n - 1) : k \in live

\* Time is counted in slots of a third of a minute; the period of the
\* evaluator, 60000 ms, is three slots.
Period == 3
SlotsPerMinute == Period

\* setInterval(callback, 60000) at the time S.clock.t, the callback being the
\* closure over scheduleName: the first run is due one period later.
\* Mutant of setInterval: the callback is first due at once.
setInterval_Immediate(S, intervalId, scheduleName) ==
    [S EXCEPT !.intervals = @ \cup {[id |-> intervalId, name |-> scheduleName,
                                      at |-> S.clock.t, due |-> S.clock.t, n |-> 0]}]

setInterval(S, intervalId, scheduleName) ==
    [S EXCEPT !.intervals = @ \cup {[id |-> intervalId, name |-> scheduleName,
                                      at |-> S.clock.t,          \* when setInterval was called
                                      due |-> S.clock.t + Period, \* when the next run is due
                                      n |-> 0]}]                 \* runs so far
clearInterval(S, intervalId) ==
    [S EXCEPT !.intervals = {r \in @ : r.id # intervalId}]
IntervalIds(S) == {r.id : r \in S.intervals}

\* Mutant of activateSchedule: an active schedule gets another timer.
activateSchedule_Again(S, scheduleName) ==
    IF ~HasName(S.schedules, scheduleName) THEN [S |-> S, ret |-> FALSE]
    ELSE LET intervalId == FreshInterval(IntervalIds(S))
         IN  [S |-> [setInterval(S, intervalId, scheduleName) EXCEPT
                        !.activeSchedules = @ \cup {scheduleName},
                        !.scheduleIntervals =
                            NameSet(@, scheduleName,
                                    [name |-> scheduleName, id |-> intervalId])],
              ret |-> TRUE]

activateSchedule(S, scheduleName) ==
    IF ~HasName(S.schedules, scheduleName) THEN [S |-> S, ret |-> FALSE]
    ELSE IF scheduleName \in S.activeSchedules THEN [S |-> S, ret |-> TRUE]
    ELSE LET intervalId == FreshInterval(IntervalIds(S))
         IN  [S |-> [setInterval(S, intervalId, scheduleName) EXCEPT
                        !.activeSchedules = @ \cup {scheduleName},
                        !.scheduleIntervals =
                            NameSet(@, scheduleName,
                                    [name |-> scheduleName, id |-> intervalId])],
              ret |-> TRUE]

\* Mutant of deactivateSchedule: no check of activeSchedules.
deactivateSchedule_NoCheck(S, scheduleName) ==
    LET S1 == IF HasName(S.scheduleIntervals, scheduleName)
              THEN [clearInterval(S, S.scheduleIntervals[
                                        NamePos(S.scheduleIntervals, scheduleName)].id)
                      EXCEPT !.scheduleIntervals = NameDelete(@, scheduleName)]
              ELSE S
    IN  [S |-> [S1 EXCEPT !.activeSchedules = @ \ {scheduleName}], ret |-> TRUE]

\* Mutant of deactivateSchedule: the timer is not cleared.
deactivateSchedule_KeepsTimer(S, scheduleName) ==
    IF scheduleName \notin S.activeSchedules THEN [S |-> S, ret |-> FALSE]
    ELSE [S |-> [S EXCEPT !.scheduleIntervals = NameDelete(@, scheduleName),
                          !.activeSchedules = @ \ {scheduleName}],
          ret |-> TRUE]

deactivateSchedule(S, scheduleName) ==
    IF scheduleName \notin S.activeSchedules THEN [S |-> S, ret |-> FALSE]
    ELSE LET S1 == IF HasName(S.scheduleIntervals, scheduleName)
                   THEN [clearInterval(S, S.scheduleIntervals[
                                             NamePos(S.scheduleIntervals, scheduleName)].id)
                           EXCEPT !.scheduleIntervals = NameDelete(@, scheduleName)]
                   ELSE S
         IN  [S |-> [S1 EXCEPT !.activeSchedules = @ \ {scheduleName}], ret |-> TRUE]

(***************************************************************************)
(* The schedule evaluator: checkScheduleEvents, run by the interval timer. *)
(***************************************************************************)
\* new Date(): the minutes since the midnight before the start.
TotalMinutes(c) == c.minute + c.t \div SlotsPerMinute
getDay(c) == (c.day + TotalMinutes(c) \div 1440) % 7
getHours(c) == (TotalMinutes(c) % 1440) \div 60
getMinutes(c) == TotalMinutes(c) % 60

\* n.toString().padStart(2, '0')
padStart2(n) == IF Len(ToString(n)) < 2 THEN "0" \o ToString(n) ELSE ToString(n)

DayTags == <<"sun", "mon", "tue", "wed", "thu", "fri", "sat">>
currentTime(c) == padStart2(getHours(c)) \o ":" \o padStart2(getMinutes(c))
currentDay(c) == DayTags[getDay(c) + 1]

\* event.days.includes(day)
Includes(days, day) == \E k \in 1..Len(days) : days[k] = day

\* Mutant of Triggers: the weekday is not looked at.
Triggers_TimeOnly(event, c) == event.time = currentTime(c)

\* event.time === currentTime && event.days.includes(currentDay)
Triggers(event, c) == event.time = currentTime(c) /\ Includes(event.days, currentDay(c))

\* The switch on event.action.
Dispatch(S, event) ==
    CASE event.action = "load_scene" ->
            IF event.scene \notin {Undefined, ""} THEN loadScene(S, event.scene).S ELSE S
      [] event.action = "lights_off" -> allLightsOff(S)
      [] event.action = "lights_on" -> allLightsOn(S)
      [] OTHER -> S       \* this.error("Unknown schedule action")

\* Mutant of checkEvents: an unknown action ends the loop.
RECURSIVE checkEvents_StopsAtUnknown(_, _)
checkEvents_StopsAtUnknown(S, events) ==
    IF events = <<>> THEN [S |-> S, actions |-> <<>>]
    ELSE IF Triggers(Head(events), S.clock)
         THEN IF Head(events).action \notin {"load_scene", "lights_off", "lights_on"}
              THEN [S |-> S, actions |-> <<Head(events).action>>]
              ELSE LET rest == checkEvents_StopsAtUnknown(Dispatch(S, Head(events)),
                                                          Tail(events))
                   IN  [S |-> rest.S,
                        actions |-> <<Head(events).action>> \o rest.actions]
         ELSE checkEvents_StopsAtUnknown(S, Tail(events))

\* The for loop of checkScheduleEvents: the new state and the actions of the
\* events that triggered, in order.
RECURSIVE checkEvents(_, _)
checkEvents(S, events) ==
    IF events = <<>> THEN [S |-> S, actions |-> <<>>]
    ELSE IF Triggers(Head(events), S.clock)
         THEN LET rest == checkEvents(Dispatch(S, Head(events)), Tail(events))
              IN  [S |-> rest.S, actions |-> <<Head(events).action>> \o rest.actions]
         ELSE checkEvents(S, Tail(events))

\* Mutant of checkScheduleEvents: a schedule that has dispatched in the
\* current minute is not evaluated again in that minute.
checkScheduleEvents_OncePerMinute(S, scheduleName) ==
    IF ~HasName(S.schedules, scheduleName)
    THEN [S |-> S, actions |-> <<>>]
    ELSE LET schedule == S.schedules[NamePos(S.schedules, scheduleName)]
             done == \E k \in 1..Len(S.ticks) :
                        /\ S.ticks[k].name = scheduleName
                        /\ S.ticks[k].actions # <<>>
                        /\ S.ticks[k].t \div SlotsPerMinute = S.clock.t \div SlotsPerMinute
         IN  IF ~schedule.enabled \/ done THEN [S |-> S, actions |-> <<>>]
             ELSE checkEvents(S, schedule.events)

\* Mutant of checkScheduleEvents: the enabled flag is not looked at.
checkScheduleEvents_IgnoresEnabled(S, scheduleName) ==
    IF ~HasName(S.schedules, scheduleName)
    THEN [S |-> S, actions |-> <<>>]
    ELSE checkEvents(S, S.schedules[NamePos(S.schedules, scheduleName)].events)

\* checkScheduleEvents(scheduleName)
checkScheduleEvents(S, scheduleName) ==
    IF ~HasName(S.schedules, scheduleName)
    THEN [S |-> S, actions |-> <<>>]
    ELSE LET schedule == S.schedules[NamePos(S.schedules, scheduleName)]
         IN  IF ~schedule.enabled THEN [S |-> S, actions |-> <<>>]
             ELSE checkEvents(S, schedule.events)

\* this.eventHandlers: the listeners addEventHandler has recorded, which are
\* the permanent ones, the last of each event name.
eventHandlers(S) ==
    {k \in 1..Len(S.listeners) :
        /\ ~S.listeners[k].once
        /\ \A j \in (k + 1)..Len(S.listeners) :
              S.listeners[j].once \/ S.listeners[j].tag # S.listeners[k].tag}

RECURSIVE clearAll(_, _)
clearAll(S, entries) ==
    IF entries = <<>> THEN S
    ELSE clearAll(clearInterval(S, Head(entries).id), Tail(entries))

\* cleanup(): removes the recorded listeners, clears the interval timers of
\* scheduleIntervals and empties both collections.
cleanup(S) ==
    LET kept == {k \in 1..Len(S.listeners) : k \notin eventHandlers(S)}
        keep(l) == \E k \in kept : S.listeners[k] = l
    IN  [clearAll(S, S.scheduleIntervals) EXCEPT
            !.listeners = SelectSeq(@, keep),
            !.scheduleIntervals = <<>>,
            !.activeSchedules = {},
            !.cleaned = TRUE]

\* deleteSchedule(scheduleName) of the page, after the confirm dialog.
deleteSchedule(S, scheduleName) ==
    LET S1 == [S EXCEPT !.schedules = NameDelete(@, scheduleName)]
    IN  saveToStorage(deactivateSchedule(S1, scheduleName).S)

(***************************************************************************)
(* Export and import of the configuration, and the page's reset.           *)
(***************************************************************************)
\* exportConfig(): the values of both maps in map order (the lights summary,
\* the version and the export date are left out).
exportConfig(S) ==
    [id |-> "file", valid |-> TRUE, scenes |-> S.scenes, schedules |-> S.schedules]

\* The page's exportConfig(): JSON.stringify of the exported object, written
\* to a file.  stringify writes NaN as null; a property that holds undefined
\* is left out and reads as undefined again.  from is what was exported.
exportConfigFile(S) ==
    LET config == exportConfig(S)
    IN  [S EXCEPT !.file = [present |-> TRUE,
                            scenes |-> JsonScenes(config.scenes),
                            schedules |-> config.schedules,
                            from |-> [scenes |-> S.scenes, schedules |-> S.schedules]]]

\* The page's importConfig() with the exported file: JSON.parse of its text,
\* then importConfig(config).
importConfigFile(S) ==
    importConfig(S, [id |-> "file", valid |-> TRUE, scenes |-> S.file.scenes,
                     schedules |-> S.file.schedules])

\* loadSavedData(): both maps are rebuilt from the stored entries, if any.
loadSavedData(S) ==
    IF S.storage.present
    THEN [S EXCEPT !.scenes = S.storage.scenes, !.schedules = S.storage.schedules]
    ELSE S

\* new RVLightingController() on a page that has just been loaded.
constructor(S) ==
    loadSavedData([S EXCEPT
        !.lights = <<>>, !.isInitialized = FALSE, !.listeners = <<>>,
        !.calls = <<>>, !.queries = <<>>, !.fired = <<>>, !.sent = <<>>,
        !.scenes = <<>>, !.schedules = <<>>, !.activeSchedules = {},
        !.scheduleIntervals = <<>>, !.intervals = {}, !.saves = <<>>,
        !.ticks = <<>>, !.cleaned = FALSE])

\* emergencyReset(): the stored entry is removed, cleanup() is called and the
\* page is loaded again, which ends the old page's listeners and timers.
emergencyReset(S) ==
    constructor(cleanup([S EXCEPT !.storage = NoStorage]))

(***************************************************************************)
(* Actions.                                                                *)
(***************************************************************************)
Fresh == [State EXCEPT !.sent = <<>>]

\* initialize(): registers the count waiter, requests the count and arms the
\* 10 s timer.
Initialize ==
    /\ Len(calls) < MaxCalls
    /\ LET c == Len(calls) + 1
           S1 == [Fresh EXCEPT !.calls = Append(@, NewCall(Fresh))]
           S2 == addEventHandler(S1, CountTag, "count", c, TRUE)
           S3 == sendWSData(S2, [cmd |-> "GET_LIGHT_COUNT", arg |-> <<>>])
       IN  Becomes(S3)
    /\ lastOp' = NoOp

\* Mutant of InitTimeout: rejects without looking at isInitialized.
InitTimeout_Unconditional(c) ==
    /\ c \in 1..Len(calls)
    /\ calls[c].timer
    /\ Becomes([Fresh EXCEPT !.calls[c].timer = FALSE,
                             !.calls[c].countedAtTimer = calls[c].counted,
                             !.calls[c].atTimer = calls[c].receivedCount,
                             !.calls[c].failedAtTimer = calls[c].failed,
                             !.calls[c].rejectCalled = TRUE,
                             !.calls[c].promise = Settle(@, "rejected")])
    /\ lastOp' = NoOp

\* The 10 s timer of call c fires.
InitTimeout(c) ==
    /\ c \in 1..Len(calls)
    /\ calls[c].timer
    /\ LET S1 == [Fresh EXCEPT !.calls[c].timer = FALSE,
                               !.calls[c].countedAtTimer = calls[c].counted,
                               !.calls[c].atTimer = calls[c].receivedCount,
                               !.calls[c].failedAtTimer = calls[c].failed]
       IN  IF ~isInitialized
           THEN Becomes([S1 EXCEPT !.calls[c].rejectCalled = TRUE,
                                   !.calls[c].promise = Settle(@, "rejected")])
           ELSE Becomes(S1)
    /\ lastOp' = NoOp

\* The page's socket delivers one KEY=VALUE message.
HandleMessage(m) ==
    /\ Becomes(RunMicrotasks(handleMessage(Fresh, m.tag, m.val)))
    /\ lastOp' = NoOp

\* getCurrentBrightness(idx): registers the waiter, sends the query and arms
\* the 5 s timer.  Its only caller is saveScene, which runs on an initialized
\* controller and queries the lights of the registry.
GetCurrentBrightness(idx) ==
    /\ Len(queries) < MaxQueries
    /\ isInitialized
    /\ HasLight(lights, idx)
    /\ Becomes(getCurrentBrightness(Fresh, idx))
    /\ lastOp' = NoOp

\* The 5 s timer of query q fires: reject.
BrightnessTimeout(q) ==
    /\ q \in 1..Len(queries)
    /\ queries[q].timer
    /\ Becomes(RunMicrotasks([Fresh EXCEPT !.queries[q].timer = FALSE,
                                           !.queries[q].promise = Settle(@, "rejected")]))
    /\ lastOp' = NoOp

\* A caller invokes setLightBrightness(id, b).
SetLightBrightness(id, b) ==
    /\ LET r == setLightBrightness(Fresh, id, b)
       IN  /\ Becomes(r.S)
           /\ lastOp' = Op("setLightBrightness", id, b, r.ret)

\* Discovery: initialize() calls, their timers and the responses to them.
Next ==
    \/ Initialize
    \/ \E c \in 1..MaxCalls : InitTimeout(c)
    \/ \E m \in DiscoveryMessages : HandleMessage(m)

Spec == Init /\ [][Next]_vars

\* A single discovery pass on the fresh controller.
NextFresh ==
    \/ calls = <<>> /\ Initialize
    \/ \E c \in 1..MaxCalls : InitTimeout(c)
    \/ \E m \in DiscoveryMessages : HandleMessage(m)

SpecFresh == Init /\ [][NextFresh]_vars

\* Correlation: one discovery pass next to brightness queries, their timers
\* and every inbound message.
NextCorrelation ==
    \/ calls = <<>> /\ Initialize
    \/ \E c \in 1..MaxCalls : InitTimeout(c)
    \/ \E m \in Messages : HandleMessage(m)
    \/ \E idx \in DevIds : GetCurrentBrightness(idx)
    \/ \E q \in 1..MaxQueries : BrightnessTimeout(q)

SpecCorrelation == Init /\ [][NextCorrelation]_vars

\* Control: one discovery pass, then control calls with levels inside and
\* outside 0..100 on registered and unregistered ids.
Levels == {-1, 0, 1, 100, 101, 128}
CallIds == 0..MaxDev

NextControl ==
    \/ calls = <<>> /\ Initialize
    \/ \E c \in 1..MaxCalls : InitTimeout(c)
    \/ \E m \in DiscoveryMessages : HandleMessage(m)
    \/ \E id \in CallIds, b \in Levels : SetLightBrightness(id, b)

SpecControl == Init /\ [][NextControl]_vars

(***************************************************************************)
(* Scenes, schedules and the remaining control calls.                      *)
(***************************************************************************)
MaxSaves == 1        \* saveScene() calls made on the controller
MaxSlots == 9        \* the clock stops after this many slots
MaxLate == 1         \* slots a timer callback may run late
MaxTimers == 2       \* interval timers live at a time
MaxSockets == 6      \* WebSocket objects the page creates
MaxControllers == 2  \* RVLightingController objects the page creates
MaxRequests == 2     \* POST requests the server receives

SceneNames == {"evening", "night"}
ScheduleNames == {"weekday"}
\* Room filters the page passes: none, and the room codes 0..2.
RoomFilters == {NoRoom, 0, 1}

\* A scene of an imported file: members for the ids 1 and 2, one level inside
\* and one outside 0..100.
ImportedScene ==
    [name |-> "evening", room |-> NoRoom,
     lights |-> <<[index |-> 1, name |-> <<"L", " ", "1">>, brightness |-> 40, room |-> 1],
                  [index |-> 2, name |-> <<"L", " ", "2">>, brightness |-> 250, room |-> 2]>>]
\* A scene of an imported file that names the id 2 alone.
PartScene ==
    [name |-> "night", room |-> 2,
     lights |-> <<[index |-> 2, name |-> <<"L", " ", "2">>, brightness |-> 250, room |-> 2]>>]
\* A scene of an imported file without members, and one without a name.
EmptyScene == [name |-> "night", room |-> 0, lights |-> <<>>]
NamelessScene == [name |-> "", room |-> NoRoom, lights |-> <<>>]
\* Events as a caller passes them to createSchedule: one without days and
\* action, one with both.
EventInputs ==
    <<[time |-> "07:00", hasDays |-> FALSE, days |-> <<>>, scene |-> "evening",
       action |-> Undefined],
      [time |-> "22:30", hasDays |-> TRUE, days |-> <<"mon">>, scene |-> Undefined,
       action |-> "lights_off"]>>
ImportedSchedule ==
    [name |-> "weekday", enabled |-> FALSE,
     events |-> <<[time |-> "07:00", days |-> <<"mon">>, scene |-> "evening",
                   action |-> "load_scene"]>>]
\* The files importConfig is called with.
Configs ==
    {[id |-> "scene", valid |-> TRUE, scenes |-> <<ImportedScene, PartScene>>,
      schedules |-> <<>>],
     [id |-> "empty", valid |-> TRUE, scenes |-> <<EmptyScene, NamelessScene>>,
      schedules |-> <<ImportedSchedule>>],
     [id |-> "invalid", valid |-> FALSE, scenes |-> <<>>, schedules |-> <<>>]}

\* A caller invokes saveScene(name, r) while no earlier save is running; the
\* call runs up to its first await.
SaveScene(name, r) ==
    /\ Len(saves) < MaxSaves
    /\ \A s \in 1..Len(saves) : saves[s].promise # "pending"
    /\ Becomes(saveScene(Fresh, name, r))
    /\ lastOp' = NoOp

LoadScene(name) ==
    /\ LET r == loadScene(Fresh, name)
       IN  /\ Becomes(r.S)
           /\ lastOp' = OpKey("loadScene", 0, name, r.successCount, r.ret)

DeleteScene(name) ==
    /\ LET r == deleteScene(Fresh, name)
       IN  /\ Becomes(r.S)
           /\ lastOp' = OpKey("deleteScene", 0, name, 0, r.ret)

ImportConfig(config) ==
    /\ LET r == importConfig(Fresh, config)
       IN  /\ Becomes(r.S)
           /\ lastOp' = OpKey("importConfig", 0, config.id, 0, r.ret)

ToggleLight(id, state) ==
    /\ LET r == toggleLight(Fresh, id, state)
       IN  /\ Becomes(r.S)
           /\ lastOp' = OpKey("toggleLight", id, state, 0, r.ret)

AllLightsOff ==
    /\ Becomes(allLightsOff(Fresh))
    /\ lastOp' = Op("allLightsOff", 0, 0, TRUE)

AllLightsOn ==
    /\ Becomes(allLightsOn(Fresh))
    /\ lastOp' = Op("allLightsOn", 0, 0, TRUE)

CreateSchedule(name, events) ==
    /\ LET r == createSchedule(Fresh, name, events)
       IN  /\ Becomes(r.S)
           /\ lastOp' = OpKey("createSchedule", 0, name, Len(events), r.ret)

ActivateSchedule(name) ==
    /\ LET r == activateSchedule(Fresh, name)
       IN  /\ Becomes(r.S)
           /\ lastOp' = OpKey("activateSchedule", 0, name, 0, r.ret)

DeactivateSchedule(name) ==
    /\ LET r == deactivateSchedule(Fresh, name)
       IN  /\ Becomes(r.S)
           /\ lastOp' = OpKey("deactivateSchedule", 0, name, 0, r.ret)

\* The page's deleteSchedule(name).
DeleteSchedule(name) ==
    /\ Becomes(deleteSchedule(Fresh, name))
    /\ lastOp' = OpKey("deleteSchedule", 0, name, 0, TRUE)

Cleanup ==
    /\ Becomes(cleanup(Fresh))
    /\ lastOp' = Op("cleanup", 0, 0, TRUE)

\* The page's exportConfig().
ExportConfig ==
    /\ Becomes(exportConfigFile(Fresh))
    /\ lastOp' = OpKey("exportConfig", 0, "file", 0, TRUE)

\* The page's importConfig() with the file exported last.
ImportFile ==
    /\ file.present
    /\ LET r == importConfigFile(Fresh)
       IN  /\ Becomes(r.S)
           /\ lastOp' = OpKey("importConfig", 0, "file", 0, r.ret)

\* The page's emergencyReset().
EmergencyReset ==
    /\ Becomes(emergencyReset(Fresh))
    /\ lastOp' = Op("emergencyReset", 0, 0, TRUE)

\* The callback of the interval timer r runs: now, or up to MaxLate slots
\* after it was due.  The next run is due one period after this one was due,
\* or one period after it ran: that is left to the browser.
Tick(id) ==
    \E r \in intervals :
        /\ r.id = id
        /\ clock.t >= r.due
        /\ \E next \in {r.due + Period, clock.t + Period} :
              LET res == checkScheduleEvents(Fresh, r.name)
                  run == [id |-> r.id, name |-> r.name, at |-> r.at, n |-> r.n + 1,
                          due |-> r.due, t |-> clock.t, actions |-> res.actions]
              IN  /\ Becomes([res.S EXCEPT
                                !.intervals = (@ \ {r}) \cup
                                              {[r EXCEPT !.due = next, !.n = @ + 1]},
                                !.ticks = Append(@, run)])
                  /\ lastOp' = OpKey("tick", r.id, r.name, Len(res.actions), TRUE)

\* A third of a minute passes; no callback is later than MaxLate slots.
Pass ==
    /\ clock.t < MaxSlots
    /\ \A r \in intervals : clock.t < r.due + MaxLate
    /\ clock' = [clock EXCEPT !.t = @ + 1]
    /\ lastOp' = NoOp
    /\ sent' = <<>>
    /\ UNCHANGED <<lights, isInitialized, listeners, calls, queries, fired, scenes,
                   schedules, activeSchedules, scheduleIntervals, intervals, saves,
                   storage, codec, ticks, cleaned, file, page, server>>

\* Reported brightness texts beyond the percentages of BrightnessValues.
WideBrightnessValues == {<<"2", "5", "0", "%">>, <<"-", "5", "%">>, <<"o", "f", "f">>}
WideMessages ==
    {[tag |-> BrightnessTag(d), val |-> v] : d \in DevIds, v \in WideBrightnessValues}

\* Levels: one discovery pass, brightness queries answered with any reported
\* text, and the control calls.
NextLevels ==
    \/ calls = <<>> /\ Initialize
    \/ \E c \in 1..MaxCalls : InitTimeout(c)
    \/ \E m \in Messages \cup WideMessages : HandleMessage(m)
    \/ \E idx \in DevIds : GetCurrentBrightness(idx)
    \/ \E q \in 1..MaxQueries : BrightnessTimeout(q)
    \/ \E id \in DevIds, b \in {0, 101} : SetLightBrightness(id, b)
    \/ \E id \in DevIds : ToggleLight(id, "null")
    \/ AllLightsOff
    \/ AllLightsOn
    \/ ImportConfig(CHOOSE cf \in Configs : cf.id = "scene")
    \/ LoadScene("evening")

SpecLevels == Init /\ [][NextLevels]_vars

\* A control unit that answers the request for object i with device i + 1
\* and reports 40% for every light.
OrderlyMessages ==
    {[tag |-> CountTag, val |-> v] : v \in CountValues}
    \cup {[tag |-> ObjectTag(i), val |-> DeviceObj(i + 1)] : i \in 0..(MaxCount - 1)}
    \cup {[tag |-> BrightnessTag(d), val |-> <<"4", "0", "%">>] : d \in DevIds}
OrderlyDiscovery == {m \in OrderlyMessages : m.tag.name # "NEWMAR_DIMMER_BRIGHTNESS"}

\* Scenes: one discovery pass, an imported scene, and the calls that send
\* control commands.
NextScenes ==
    \/ calls = <<>> /\ Initialize
    \/ \E c \in 1..MaxCalls : InitTimeout(c)
    \/ \E m \in OrderlyDiscovery : HandleMessage(m)
    \/ \E id \in CallIds, b \in {0, 101} : SetLightBrightness(id, b)
    \/ \E id \in CallIds : ToggleLight(id, "null")
    \/ AllLightsOff
    \/ AllLightsOn
    \/ \E cf \in Configs : ImportConfig(cf)
    \/ \E n \in SceneNames : LoadScene(n)

SpecScenes == Init /\ [][NextScenes]_vars

\* References: one discovery pass, and calls that name known and unknown
\* lights, scenes and schedules.
NextReferences ==
    \/ calls = <<>> /\ Initialize
    \/ \E c \in 1..MaxCalls : InitTimeout(c)
    \/ \E m \in OrderlyDiscovery : HandleMessage(m)
    \/ \E id \in CallIds : SetLightBrightness(id, 100)
    \/ \E id \in CallIds : ToggleLight(id, "true")
    \/ \E cf \in Configs : ImportConfig(cf)
    \/ \E n \in SceneNames : LoadScene(n)
    \/ \E n \in SceneNames : DeleteScene(n)
    \/ \E n \in ScheduleNames : CreateSchedule(n, EventInputs)
    \/ \E n \in ScheduleNames : ActivateSchedule(n)
    \/ \E n \in ScheduleNames : DeactivateSchedule(n)

SpecReferences == Init /\ [][NextReferences]_vars

\* Saving: one discovery pass, saveScene calls with their brightness queries,
\* the responses and the 5 s timers.
NextSave ==
    \/ calls = <<>> /\ Initialize
    \/ \E c \in 1..MaxCalls : InitTimeout(c)
    \/ \E m \in OrderlyMessages : HandleMessage(m)
    \/ \E r \in RoomFilters : SaveScene("evening", r)
    \/ \E q \in 1..Len(queries) : BrightnessTimeout(q)

SpecSave == Init /\ [][NextSave]_vars

\* Saving while the lights are refreshed: once a discovery pass has settled,
\* initialize() may be called again (refreshLights), also while a saveScene
\* call awaits a query.
NextRefresh ==
    \/ (\A c \in 1..Len(calls) : calls[c].promise # "pending") /\ Initialize
    \/ \E c \in 1..MaxCalls : InitTimeout(c)
    \/ \E m \in OrderlyMessages : HandleMessage(m)
    \/ SaveScene("evening", NoRoom)
    \/ \E q \in 1..Len(queries) : BrightnessTimeout(q)

SpecRefresh == Init /\ [][NextRefresh]_vars

\* Stored scenes while the lights change: an imported file, a discovery
\* pass, saveScene with its brightness responses, and once a scene is saved
\* further discovery passes, further saves and control calls.
Settled == \A c \in 1..Len(calls) : calls[c].promise # "pending"
Saved == \E s \in 1..Len(saves) : saves[s].promise = "true"
NextSnapshot ==
    \/ calls = <<>> /\ ImportConfig(CHOOSE cf \in Configs : cf.id = "scene")
    \/ Settled /\ (calls = <<>> \/ Saved) /\ Initialize
    \/ \E m \in OrderlyMessages : HandleMessage(m)
    \/ Settled /\ isInitialized /\ SaveScene("evening", NoRoom)
    \/ Settled /\ Saved /\ AllLightsOff

SpecSnapshot == Init /\ [][NextSnapshot]_vars

\* A control unit that reports two dimmers whose ids differ by 256, and the
\* control calls on them.
HighIds == {1, 257}
HighDeviceObj(d) ==
    [ok |-> TRUE, name |-> <<"L", "|">> \o DecStr(d), index |-> d,
     instance |-> d % 256, command |-> 0, room_loc |-> 0]
HighDiscovery ==
    {[tag |-> CountTag, val |-> DecStr(2)]}
    \cup {[tag |-> ObjectTag(i), val |-> HighDeviceObj(d)] : i \in 0..1, d \in HighIds}

NextInstances ==
    \/ calls = <<>> /\ Initialize
    \/ \E m \in HighDiscovery : HandleMessage(m)
    \/ \E id \in HighIds, b \in {0, 50, 100} : SetLightBrightness(id, b)

SpecInstances == Init /\ [][NextInstances]_vars

\* The scene store: saveScene, importConfig and deleteScene.
NextStore ==
    \/ NextSave
    \/ \E cf \in Configs : ImportConfig(cf)
    \/ \E n \in SceneNames : DeleteScene(n)

SpecStore == Init /\ [][NextStore]_vars

\* The 5 s timer of query q is armed: BrightnessTimeout(q) is enabled.
Armed(q) == q <= Len(queries) /\ queries[q].timer

\* No 5 s timer stays armed for ever: it fires unless the response clears it.
\* This is weak fairness of BrightnessTimeout(q), which is enabled exactly
\* while the timer of q is armed and disarms it.
SpecSaveLive ==
    SpecSave /\ \A q \in 1..(MaxSaves * MaxCount) : []<>~Armed(q)

(***************************************************************************)
(* Schedules under the clock: the evaluator's timers run while time        *)
(* passes.                                                                 *)
(***************************************************************************)
\* The times the clock starts at: a Monday and a Tuesday, 06:58:40.
Starts == {[day |-> 1, minute |-> 418, t |-> 2], [day |-> 2, minute |-> 418, t |-> 2]}

\* The event lists createSchedule is called with: the single event
\* 07:00/mon/lights_off, and a list whose events name an unknown action, no
\* scene, a scene, lights_on and a time that is not zero-padded.
MorningEvents ==
    <<[time |-> "07:00", hasDays |-> TRUE, days |-> <<"mon">>, scene |-> Undefined,
       action |-> "lights_off"]>>
SeveralEvents ==
    <<[time |-> "07:00", hasDays |-> TRUE, days |-> <<"mon">>, scene |-> Undefined,
       action |-> "dim"],
      [time |-> "07:00", hasDays |-> TRUE, days |-> <<"mon">>, scene |-> Undefined,
       action |-> Undefined],
      [time |-> "07:00", hasDays |-> FALSE, days |-> <<>>, scene |-> "evening",
       action |-> Undefined],
      [time |-> "07:00", hasDays |-> TRUE, days |-> <<"sun", "mon">>, scene |-> Undefined,
       action |-> "lights_on"],
      [time |-> "7:00", hasDays |-> TRUE, days |-> <<"mon">>, scene |-> Undefined,
       action |-> "lights_off"]>>
EventLists == {MorningEvents, SeveralEvents}

InitTicks ==
    /\ lights = <<>>
    /\ isInitialized = FALSE
    /\ listeners = <<>>
    /\ calls = <<>>
    /\ queries = <<>>
    /\ fired = <<>>
    /\ sent = <<>>
    /\ lastOp = NoOp
    /\ scenes = <<>>
    /\ schedules = <<>>
    /\ activeSchedules = {}
    /\ scheduleIntervals = <<>>
    /\ intervals = {}
    /\ saves = <<>>
    /\ storage = NoStorage
    /\ codec = NoCodec
    /\ clock \in Starts
    /\ ticks = <<>>
    /\ cleaned = FALSE
    /\ file = NoFile
    /\ page = NoPage
    /\ server = NoServer

\* Before the clock moves: one discovery pass, an imported file and the
\* schedules created.  Then the schedule is activated and deactivated while
\* time passes and the evaluator's timer runs.
Setup == clock \in Starts /\ intervals = {}

NextTicks ==
    \/ Setup /\ calls = <<>> /\ Initialize
    \/ Setup /\ \E m \in OrderlyDiscovery : HandleMessage(m)
    \/ Setup /\ \E cf \in Configs : ImportConfig(cf)
    \/ Setup /\ \E n \in ScheduleNames, evs \in EventLists : CreateSchedule(n, evs)
    \/ \E n \in ScheduleNames : ActivateSchedule(n)
    \/ \E n \in ScheduleNames : DeactivateSchedule(n)
    \/ \E id \in 1..MaxTimers : Tick(id)
    \/ Pass

SpecTicks == InitTicks /\ [][NextTicks]_vars

\* Schedules created and created again at any time, also while their timer
\* runs.
NextRecreate ==
    \/ \E n \in ScheduleNames, evs \in EventLists : CreateSchedule(n, evs)
    \/ \E n \in ScheduleNames : ActivateSchedule(n)
    \/ \E n \in ScheduleNames : DeactivateSchedule(n)
    \/ \E id \in 1..MaxTimers : Tick(id)
    \/ Pass

SpecRecreate == InitTicks /\ [][NextRecreate]_vars

\* The same with direct loadScene, allLightsOff and allLightsOn calls before
\* the clock moves.
NextDispatch ==
    \/ NextTicks
    \/ Setup /\ \E n \in SceneNames : LoadScene(n)
    \/ Setup /\ AllLightsOff
    \/ Setup /\ AllLightsOn

SpecDispatch == InitTicks /\ [][NextDispatch]_vars

\* Export and import: one discovery pass, a scene saved while the control
\* unit reports 40% or the text off, a schedule created, the configuration
\* exported to a file, the page reset, and the file imported.
ExportMessages ==
    OrderlyDiscovery
    \cup {[tag |-> BrightnessTag(d), val |-> v] :
             d \in DevIds, v \in {<<"4", "0", "%">>, <<"o", "f", "f">>}}

NextExport ==
    \/ calls = <<>> /\ Initialize
    \/ \E m \in ExportMessages : HandleMessage(m)
    \/ SaveScene("evening", NoRoom)
    \/ \E q \in 1..Len(queries) : BrightnessTimeout(q)
    \/ \E n \in ScheduleNames : CreateSchedule(n, EventInputs)
    \/ ExportConfig
    \/ EmergencyReset
    \/ ImportFile

SpecExport == Init /\ [][NextExport]_vars

\* The page is loaded again: a new controller reads the stored entry.
Reload ==
    /\ Becomes(constructor(Fresh))
    /\ lastOp' = Op("reload", 0, 0, TRUE)

\* Persistence: one discovery pass, scenes saved while the control unit
\* reports 40% or the text off, scenes deleted, a schedule created, files
\* imported, and the page loaded again.
NextPersist ==
    \/ calls = <<>> /\ Initialize
    \/ \E m \in ExportMessages : HandleMessage(m)
    \/ SaveScene("evening", NoRoom)
    \/ \E n \in SceneNames : DeleteScene(n)
    \/ \E n \in ScheduleNames : CreateSchedule(n, EventInputs)
    \/ \E cf \in Configs : ImportConfig(cf)
    \/ Reload

SpecPersist == Init /\ [][NextPersist]_vars

\* cleanup(): a discovery pass, a brightness query and an active schedule,
\* then cleanup() as the last call made on the controller, after which
\* messages still arrive, timers still fire and time passes.
NextCleanup ==
    \/ ~cleaned /\ calls = <<>> /\ Initialize
    \/ \E c \in 1..MaxCalls : InitTimeout(c)
    \/ \E m \in OrderlyMessages : HandleMessage(m)
    \/ ~cleaned /\ \E idx \in DevIds : GetCurrentBrightness(idx)
    \/ \E q \in 1..MaxQueries : BrightnessTimeout(q)
    \/ ~cleaned /\ \E n \in ScheduleNames : CreateSchedule(n, MorningEvents)
    \/ ~cleaned /\ \E n \in ScheduleNames : ActivateSchedule(n)
    \/ ~cleaned /\ Cleanup
    \/ \E id \in 1..MaxTimers : Tick(id)
    \/ Pass

SpecCleanup == Init /\ [][NextCleanup]_vars

\* The timers of two schedules: created, activated, deactivated and
\* deleted in any order, with cleanup() calls in between.
TimerNames == {"weekday", "weekend"}

NextTimers ==
    \/ \E n \in TimerNames : CreateSchedule(n, MorningEvents)
    \/ \E n \in TimerNames : ActivateSchedule(n)
    \/ \E n \in TimerNames : DeactivateSchedule(n)
    \/ \E n \in TimerNames : DeleteSchedule(n)
    \/ Cleanup

SpecTimers == Init /\ [][NextTimers]_vars

(***************************************************************************)
(* The page: connect(), the socket's handlers, disconnect() and the        *)
(* CORRECTPIN message that creates the controller.                         *)
(***************************************************************************)
maxReconnectAttempts == 5

\* connect() with the address filled in: a new WebSocket becomes client; the
\* socket client referred to before is neither closed nor forgotten by its
\* handlers.
connect(S) ==
    [S EXCEPT !.page.connectionState = "connecting",
              !.page.socks = Append(@, "connecting"),
              !.page.client = Len(S.page.socks) + 1]

\* client.onopen of socket s: both timers are started, none is kept.
onopen(S, s) ==
    [S EXCEPT !.page.socks[s] = "open",
              !.page.connectionState = "connected",
              !.page.reconnectAttempts = 0,
              !.page.wsReady = TRUE,
              !.page.helloTimers = @ + 1,
              !.page.pingTimers = @ + 1]

\* Mutant of onclose: a reconnect is scheduled whatever the count.
onclose_Always(S, s) ==
    [S EXCEPT !.page.socks[s] = "closed",
              !.page.connectionState = "disconnected",
              !.page.wsReady = FALSE,
              !.page.reconnectAttempts = @ + 1,
              !.page.connectTimers = @ + 1]

\* client.onclose of socket s.
onclose(S, s) ==
    LET S1 == [S EXCEPT !.page.socks[s] = "closed",
                        !.page.connectionState = "disconnected",
                        !.page.wsReady = FALSE]
    IN  IF S.page.reconnectAttempts < maxReconnectAttempts
        THEN [S1 EXCEPT !.page.reconnectAttempts = @ + 1,
                        !.page.connectTimers = @ + 1]
        ELSE S1

\* disconnect(): client.close() starts the closing handshake, the close event
\* follows later; the handlers stay on the socket.
disconnect(S) ==
    LET S1 == IF S.page.client # 0
              THEN [S EXCEPT !.page.socks[S.page.client] =
                                 IF @ = "closed" THEN @ ELSE "closing",
                             !.page.client = 0]
              ELSE S
    IN  [S1 EXCEPT !.page.connectionState = "disconnected", !.page.wsReady = FALSE]

\* The page's sendWSData(data): sent if client is an open socket.
pageSend(S, data) ==
    IF S.page.client # 0 /\ S.page.socks[S.page.client] = "open"
    THEN sendWSData(S, [cmd |-> data, arg |-> <<>>])
    ELSE S

\* initialize() of the controller S.
initialize(S) ==
    LET c == Len(S.calls) + 1
        S1 == [S EXCEPT !.calls = Append(@, NewCall(S))]
        S2 == addEventHandler(S1, CountTag, "count", c, TRUE)
    IN  sendWSData(S2, [cmd |-> "GET_LIGHT_COUNT", arg |-> <<>>])

\* initializeLightingSystem(): lightingController = new RVLightingController()
\* and initialize().  The object lightingController referred to before is
\* left as it is, with its waiters and its interval timers: it goes to
\* page.old.
initializeLightingSystem(S) ==
    LET retired == [S EXCEPT !.page = NoPage, !.sent = <<>>, !.ticks = <<>>]
        S1 == [constructor(S) EXCEPT
                  !.ticks = S.ticks,
                  !.page.controllers = @ + 1,
                  !.page.old = IF S.page.controllers = 0 THEN @ ELSE Append(@, retired)]
    IN  initialize(S1)

\* The user presses Connect; the button is enabled while the page shows
\* "disconnected".
Connect ==
    /\ page.connectionState = "disconnected"
    /\ Len(page.socks) < MaxSockets
    /\ Becomes(connect(Fresh))
    /\ lastOp' = NoOp

\* A 5 s timer of onclose fires.
ReconnectTimer ==
    /\ page.connectTimers > 0
    /\ Len(page.socks) < MaxSockets
    /\ Becomes(connect([Fresh EXCEPT !.page.connectTimers = @ - 1]))
    /\ lastOp' = NoOp

\* The connection of socket s is established.
Open(s) ==
    /\ s \in 1..Len(page.socks)
    /\ page.socks[s] = "connecting"
    /\ Becomes(onopen(Fresh, s))
    /\ lastOp' = NoOp

\* Socket s is closed: the connection failed or was lost, or the closing
\* handshake that close() started has ended.
Close(s) ==
    /\ s \in 1..Len(page.socks)
    /\ page.socks[s] # "closed"
    /\ Becomes(onclose(Fresh, s))
    /\ lastOp' = NoOp

\* The user presses Disconnect; the button is enabled while the page shows
\* "connecting" or "connected".
Disconnect ==
    /\ page.connectionState # "disconnected"
    /\ Becomes(disconnect(Fresh))
    /\ lastOp' = NoOp

\* The 10 ms timer of onopen fires: the handshake is sent.
HelloTimer ==
    /\ page.helloTimers > 0
    /\ Becomes(pageSend([Fresh EXCEPT !.page.helloTimers = @ - 1], "?*!"))
    /\ lastOp' = NoOp

\* One of the 30 s interval timers of onopen runs.
PingTimer ==
    /\ page.pingTimers > 0
    /\ Becomes(pageSend(Fresh, "ping"))
    /\ lastOp' = NoOp

\* The message CORRECTPIN arrives on socket s.
CorrectPin(s) ==
    /\ s \in 1..Len(page.socks)
    /\ page.socks[s] = "open"
    /\ page.controllers < MaxControllers
    /\ Becomes(initializeLightingSystem(Fresh))
    /\ lastOp' = NoOp

\* A timer of the retired controller k runs its evaluator: it reads the
\* schedules and lights of that controller and sends through the page.
RetiredTick(k, id) ==
    /\ k \in 1..Len(page.old)
    /\ \E r \in page.old[k].intervals :
          /\ r.id = id
          /\ clock.t >= r.due
          /\ \E next \in {r.due + Period, clock.t + Period} :
                LET res == checkScheduleEvents([page.old[k] EXCEPT !.clock = clock], r.name)
                    run == [id |-> r.id, name |-> r.name, at |-> r.at, n |-> r.n + 1,
                            due |-> r.due, t |-> clock.t, actions |-> res.actions]
                    kept == [res.S EXCEPT
                                !.sent = <<>>,
                                !.intervals = (@ \ {r}) \cup
                                              {[r EXCEPT !.due = next, !.n = @ + 1]}]
                IN  /\ Becomes([Fresh EXCEPT !.sent = res.S.sent,
                                             !.ticks = Append(@, run),
                                             !.page.old[k] = kept])
                    /\ lastOp' = OpKey("retired tick", r.id, r.name, Len(res.actions), TRUE)

\* The connection alone.
NextConnection ==
    \/ Connect
    \/ ReconnectTimer
    \/ \E s \in 1..MaxSockets : Open(s)
    \/ \E s \in 1..MaxSockets : Close(s)
    \/ Disconnect
    \/ HelloTimer
    \/ PingTimer

SpecConnection == Init /\ [][NextConnection]_vars

\* The controller of a page that is connected, loses the connection and is
\* connected again: the schedule is created and activated on the controller
\* the page has, and time passes.
NextReinit ==
    \/ page.socks = <<>> /\ Connect
    \/ ReconnectTimer
    \/ page.client # 0 /\ Open(page.client)
    \/ page.client # 0 /\ page.socks[page.client] = "open" /\ Close(page.client)
    \/ page.client # 0 /\ CorrectPin(page.client)
    \/ page.controllers > 0 /\ schedules = <<>>
          /\ \E n \in ScheduleNames : CreateSchedule(n, MorningEvents)
    \/ page.controllers > 0 /\ \E n \in ScheduleNames : ActivateSchedule(n)
    \/ \E id \in 1..MaxTimers : Tick(id)
    \/ \E k \in 1..MaxControllers, id \in 1..MaxTimers : RetiredTick(k, id)
    \/ Pass

SpecReinit == InitTicks /\ [][NextReinit]_vars

(***************************************************************************)
(* The codec as a function: inputs drawn at the start, Encode applies      *)
(* ESET_INSTANCE, ESET_BRIGHTNESS, ESET_LEVEL and packEvent to them.       *)
(***************************************************************************)
InstanceInputs == {-256, -1, 0, 1, 3, 255, 256, 257, 300}
BrightnessInputs == {-129, -128, -1, 0, 1, 100, 101, 127, 128, 200, 255, 256, 257, 511}
LevelInputs == {-1, 0, 1, 15, 16, 17}

InitCodec ==
    /\ lights = <<>>
    /\ isInitialized = FALSE
    /\ listeners = <<>>
    /\ calls = <<>>
    /\ queries = <<>>
    /\ fired = <<>>
    /\ sent = <<>>
    /\ lastOp = NoOp
    /\ scenes = <<>>
    /\ schedules = <<>>
    /\ activeSchedules = {}
    /\ scheduleIntervals = <<>>
    /\ intervals = {}
    /\ saves = <<>>
    /\ storage = NoStorage
    /\ clock = Monday0659
    /\ ticks = <<>>
    /\ cleaned = FALSE
    /\ file = NoFile
    /\ page = NoPage
    /\ server = NoServer
    /\ \E i \in InstanceInputs, b \in BrightnessInputs, l \in LevelInputs :
          codec = [NoCodec EXCEPT !.instance = i, !.brightness = b, !.level = l]

\* The three fields of the inputs, and the tokens of the packings
\* packEvent(I, B), packEvent(B, I), packEvent(I, B, B), packEvent(I, L),
\* packEvent(L, I).
Encode ==
    /\ ~codec.done
    /\ LET I == ESET_INSTANCE(codec.instance)
           B == ESET_BRIGHTNESS(codec.brightness)
           L == ESET_LEVEL(codec.level)
       IN  codec' = [codec EXCEPT
                        !.done = TRUE,
                        !.fields = <<I, B, L>>,
                        !.tokens = <<packEvent(<<I, B>>), packEvent(<<B, I>>),
                                     packEvent(<<I, B, B>>), packEvent(<<I, L>>),
                                     packEvent(<<L, I>>)>>]
    /\ UNCHANGED <<lights, isInitialized, listeners, calls, queries, fired, sent,
                   lastOp, scenes, schedules, activeSchedules, scheduleIntervals,
                   intervals, saves, storage, clock, ticks, cleaned, file, page, server>>

NextCodec == Encode

SpecCodec == InitCodec /\ [][NextCodec]_vars

(***************************************************************************)
(* Properties of discovery: C1 to C4 of a single pass (SpecFresh), C5 and  *)
(* C6 of repeated passes (Spec).                                           *)
(***************************************************************************)
Distinct(seq) == \A a, b \in 1..Len(seq) : seq[a] = seq[b] => a = b

\* C1: on a fresh controller, a count response of 0 (received before the
\* 10 s timer fires) resolves the promise of initialize() with an empty
\* registry and isInitialized = TRUE, and the timer, when it fires later,
\* does not reject it.
C1_CountZeroResolves ==
    (/\ Len(calls) >= 1 /\ calls[1].counted /\ calls[1].totalLights = 0
     /\ (calls[1].timer \/ calls[1].countedAtTimer)) =>
        /\ calls[1].promise = "resolved"
        /\ ~calls[1].rejectCalled
        /\ isInitialized
        /\ (Len(calls) = 1 => lights = <<>>)

C1_Witness ==
    /\ Len(calls) = 1
    /\ calls[1].counted /\ calls[1].totalLights = 0
    /\ ~calls[1].timer
    /\ calls[1].promise = "resolved"

\* C2: on a fresh controller with a count of N > 0, the promise is rejected
\* by the timer exactly when fewer than N object responses had been
\* processed when the timer of the call fired; when the N-th response is
\* processed before that, the promise is resolved and never rejected.
C2_TimeoutBudget ==
    (Len(calls) = 1 /\ calls[1].counted /\ calls[1].totalLights > 0) =>
        LET c == calls[1]
        IN  /\ (c.timer /\ c.receivedCount = c.totalLights) =>
                    (c.promise = "resolved" /\ ~c.rejectCalled)
            /\ (c.timer /\ c.receivedCount < c.totalLights) => c.promise = "pending"
            /\ (~c.timer /\ c.atTimer = c.totalLights) =>
                    (c.promise = "resolved" /\ ~c.rejectCalled)
            /\ (~c.timer /\ c.atTimer < c.totalLights) => c.promise = "rejected"

C2_Witness ==
    /\ Len(calls) = 1
    /\ calls[1].counted /\ calls[1].totalLights = 2
    /\ ~calls[1].timer
    /\ calls[1].atTimer = 1
    /\ calls[1].receivedCount = 2
    /\ calls[1].promise = "rejected"

\* C3: on a fresh controller with a count of N > 0, once the N object
\* responses have been processed before the timer, in whatever order they
\* arrive, the promise is resolved and the registry holds the N reported
\* devices in the order of arrival of their responses.
C3_ArrivalOrder ==
    (/\ Len(calls) = 1 /\ calls[1].counted /\ calls[1].totalLights > 0
     /\ calls[1].receivedCount = calls[1].totalLights
     /\ (calls[1].timer \/ calls[1].atTimer = calls[1].totalLights)) =>
        /\ calls[1].promise = "resolved"
        /\ isInitialized
        /\ Distinct(calls[1].arrival) =>
                (Keys(lights) = calls[1].arrival /\ Len(lights) = calls[1].totalLights)

C3_Witness ==
    /\ Len(calls) = 1
    /\ calls[1].promise = "resolved"
    /\ calls[1].arrivalTags = <<1, 0>>
    /\ Distinct(calls[1].arrival)
    /\ Keys(lights) = calls[1].arrival

\* C4: on a fresh controller, when exactly one object response fails to
\* parse and all the other responses are processed before the timer fires,
\* the promise of initialize() is not rejected.
C4_ParseFailureSkipsDevice ==
    (/\ Len(calls) = 1 /\ calls[1].counted /\ calls[1].totalLights > 0
     /\ ~calls[1].timer
     /\ calls[1].failedAtTimer = 1
     /\ calls[1].atTimer = calls[1].totalLights - 1) =>
        calls[1].promise # "rejected"

\* C5: every initialize() call is settled (resolved or rejected) once its
\* 10 s timer has fired.
C5_EveryCallSettles ==
    \A c \in 1..Len(calls) : ~calls[c].timer => calls[c].promise # "pending"

Range(seq) == {seq[k] : k \in 1..Len(seq)}

\* C6: when an initialize() call on an already initialized controller
\* resolves, the registry holds exactly the devices reported in that pass.
C6_Rediscovery ==
    [][\A c \in 1..Len(calls) :
          (/\ calls[c].initAtCall /\ calls[c].before # <<>>
           /\ calls[c].promise = "pending"
           /\ calls'[c].promise = "resolved") =>
              Range(Keys(lights')) = Range(calls'[c].arrival)]_vars

(***************************************************************************)
(* Properties of the correlation of responses: C7 and C8 under            *)
(* SpecCorrelation, C9 under Spec (two overlapping initialize() calls).    *)
(***************************************************************************)
Waiting(tag) == {k \in 1..Len(listeners) : listeners[k].tag = tag}

\* The request a waiter belongs to has been rejected by its timer.
TimedOut(l) ==
    IF l.kind = "brightness" THEN queries[l.owner].promise = "rejected"
    ELSE calls[l.owner].promise = "rejected"

\* C7: a message whose tag is awaited only by requests that have timed out
\* changes neither the registry nor isInitialized.
C7_TimedOutWaiterDropped ==
    \A m \in Messages :
        (\A k \in Waiting(m.tag) : TimedOut(listeners[k])) =>
            LET after == handleMessage(Fresh, m.tag, m.val)
            IN  after.lights = lights /\ after.isInitialized = isInitialized

\* C8: no waiter's handler has run more than once, and a message whose tag
\* has no registered waiter changes nothing of the controller.
C8_AtMostOnce ==
    /\ \A w \in 1..Len(fired) : fired[w] <= 1
    /\ \A m \in Messages :
            Waiting(m.tag) = {} => handleMessage(Fresh, m.tag, m.val) = Fresh

C8_Witness ==
    /\ Len(calls) = 1 /\ calls[1].receivedCount >= 1
    /\ \E q \in 1..Len(queries) : queries[q].promise = "resolved"
    /\ \A w \in 1..Len(fired) : fired[w] <= 1

\* The waiters whose handler runs in a step.
FiredInStep == {w \in 1..Len(fired) : fired'[w] > fired[w]}

\* C9: one inbound message runs the handler of at most one waiter, and of
\* the waiters registered for its tag that is the last one registered.
C9_LastRegistrationWins ==
    [][/\ Cardinality(FiredInStep) <= 1
       /\ \A w \in FiredInStep : \A k, j \in 1..Len(listeners) :
            (listeners[k].id = w /\ listeners[j].tag = listeners[k].tag) =>
                listeners[j].id <= w]_vars

(***************************************************************************)
(* Properties of control commands (checked under SpecControl).             *)
(***************************************************************************)
\* C10: setLightBrightness(id, b) on a registered device sends one command
\* built from clamp(b, 0, 100): a dimmer's low byte is 2 * clamp(b) (0..200)
\* under an instance byte that depends on the id only, a switch's level
\* nibble is 1 when clamp(b) > 0 and 0 otherwise, and the cached
\* currentBrightness becomes clamp(b).
C10_ClampedBeforeEncoding ==
    (lastOp.op = "setLightBrightness" /\ HasLight(lights, lastOp.id)) =>
        LET light == lights[LightPos(lights, lastOp.id)]
            b == IF lastOp.arg < 0 THEN 0 ELSE IF lastOp.arg > 100 THEN 100 ELSE lastOp.arg
            token == sent[1].arg
            low == HexVal(SubSeq(token, 5, 6))
            high == HexVal(SubSeq(token, 3, 4))
        IN  /\ lastOp.ret
            /\ Len(sent) = 1 /\ Len(token) = 6 /\ SubSeq(token, 1, 2) = <<"0", "x">>
            /\ light.currentBrightness = b
            /\ high = lastOp.id % 256
            /\ light.isDimmer => (sent[1].cmd = DimmerCmd /\ low = 2 * b /\ low \in 0..200)
            /\ ~light.isDimmer =>
                    (sent[1].cmd = SwitchCmd /\ low = (IF b > 0 THEN 1 ELSE 0))

C10_Witness ==
    /\ lastOp.op = "setLightBrightness" /\ lastOp.arg = 128 /\ lastOp.ret
    /\ HasLight(lights, lastOp.id)
    /\ lights[LightPos(lights, lastOp.id)].isDimmer
    /\ lights[LightPos(lights, lastOp.id)].currentBrightness = 100
    /\ SubSeq(sent[1].arg, 5, 6) = <<"C", "8">>

(***************************************************************************)
(* Properties of the cached level (SpecLevels), of unknown references      *)
(* (SpecReferences), of the wire commands (SpecScenes) and of the codec    *)
(* (SpecCodec).                                                            *)
(***************************************************************************)
\* C11: after any sequence of discovery, control calls and brightness-query
\* responses with any reported value, every device of the registry has a
\* currentBrightness that is an integer in 0..100.
C11_LevelInRange ==
    \A k \in 1..Len(lights) : lights[k].currentBrightness \in 0..100

\* The call of this step names a light, a scene or a schedule that the state
\* before the call does not hold (for deactivateSchedule: that is not active).
UnknownReference ==
    \/ lastOp'.op \in {"setLightBrightness", "toggleLight"} /\ ~HasLight(lights, lastOp'.id)
    \/ lastOp'.op \in {"loadScene", "deleteScene"} /\ ~HasName(scenes, lastOp'.key)
    \/ lastOp'.op = "activateSchedule" /\ ~HasName(schedules, lastOp'.key)
    \/ lastOp'.op = "deactivateSchedule" /\ lastOp'.key \notin activeSchedules

\* C12: a call that references something unknown (setLightBrightness or
\* toggleLight on an id not in the registry, loadScene or deleteScene on an
\* unknown scene name, activateSchedule on an unknown schedule name,
\* deactivateSchedule on a schedule that is not active) returns false, sends
\* no command, starts or stops no timer, and leaves registry, scenes,
\* schedules, the active set and the stored data unchanged.
C12_UnknownReference ==
    [][UnknownReference =>
          /\ ~lastOp'.ret
          /\ sent' = <<>>
          /\ UNCHANGED <<lights, isInitialized, listeners, scenes, schedules,
                         activeSchedules, scheduleIntervals, intervals, storage,
                         queries, saves>>]_vars

C12_Witness ==
    /\ lastOp.op = "deactivateSchedule" /\ ~lastOp.ret
    /\ HasName(schedules, lastOp.key)
    /\ lights # <<>> /\ scenes # <<>>

\* The instance byte of a command text: the first two hex digits of its token.
InstanceByte(text) == HexVal(SubSeq(text.arg, 3, 4))

\* The registry positions of the lights the last call sent commands for, in
\* the order of the commands.
Targets ==
    CASE lastOp.op \in {"setLightBrightness", "toggleLight"} /\ lastOp.ret ->
            <<LightPos(lights, lastOp.id)>>
      [] lastOp.op \in {"allLightsOff", "allLightsOn"} ->
            [k \in 1..Len(lights) |-> k]
      [] lastOp.op = "loadScene" /\ HasName(scenes, lastOp.key) ->
            LET ms == SelectSeq(scenes[NamePos(scenes, lastOp.key)].lights,
                                LAMBDA m : HasLight(lights, m.index))
            IN  [k \in 1..Len(ms) |-> LightPos(lights, ms[k].index)]
      [] OTHER -> <<>>

\* The control commands among the texts the last step sent.
Commands == SelectSeq(sent, LAMBDA t : t.cmd \in {DimmerCmd, SwitchCmd})

\* C13 as the specification states it: the instance byte of every control
\* command sent for a device is the device's instance field masked to 8 bits.
C13_InstanceFieldEncoded ==
    /\ Len(Commands) = Len(Targets)
    /\ \A k \in 1..Len(Targets) :
          InstanceByte(Commands[k]) = lights[Targets[k]].instance % 256

\* C13: the instance byte of every control command sent for a device is the
\* device's id (its registry key index) masked to 8 bits; the instance field
\* the control unit reported is stored and not encoded.
C13_IndexEncoded ==
    /\ Len(Commands) = Len(Targets)
    /\ \A k \in 1..Len(Targets) :
          InstanceByte(Commands[k]) = lights[Targets[k]].index % 256

C13_Witness ==
    /\ lastOp.op = "allLightsOn"
    /\ Len(sent) = 2
    /\ \A k \in 1..2 : /\ lights[k].instance % 256 # lights[k].index % 256
                       /\ InstanceByte(sent[k]) = lights[k].index

\* C14: packEvent is commutative in its fields and idempotent under the
\* repetition of a field, for fields made by ESET_INSTANCE, ESET_BRIGHTNESS
\* and ESET_LEVEL: packEvent(I, B) = packEvent(B, I) = packEvent(I, B, B) and
\* packEvent(I, L) = packEvent(L, I); instance 3 with brightness 200 packs to
\* "0x03C8".
C14_PackCommutes ==
    codec.done =>
        /\ codec.tokens[1] = codec.tokens[2]
        /\ codec.tokens[1] = codec.tokens[3]
        /\ codec.tokens[4] = codec.tokens[5]
        /\ (codec.instance = 3 /\ codec.brightness = 200) =>
                codec.tokens[1] = <<"0", "x", "0", "3", "C", "8">>

C14_Witness ==
    /\ codec.done /\ codec.instance = 3 /\ codec.brightness = 200
    /\ codec.tokens[2] = <<"0", "x", "0", "3", "C", "8">>

\* C15: the codec masks and never clamps or rejects: for every integer
\* instance i, brightness b and level l of the inputs (negatives and values
\* above 255 included) ESET_BRIGHTNESS(b) = b mod 256, ESET_INSTANCE(i) =
\* (i mod 256) * 256, ESET_LEVEL(l) = l mod 16, and packEvent of the instance
\* and brightness fields does not throw: its token is "0x" and exactly four
\* upper-case hex digits, the high byte i mod 256 and the low byte b mod 256.
C15_CodecMasks ==
    codec.done =>
        LET token == codec.tokens[1]
        IN  /\ codec.fields[1] = (codec.instance % 256) * 256
            /\ codec.fields[2] = codec.brightness % 256
            /\ codec.fields[3] = codec.level % 16
            /\ token # Thrown
            /\ Len(token) = 6 /\ SubSeq(token, 1, 2) = <<"0", "x">>
            /\ \A k \in 3..6 : token[k] \in Range(HexDigits)
            /\ HexVal(SubSeq(token, 3, 4)) = codec.instance % 256
            /\ HexVal(SubSeq(token, 5, 6)) = codec.brightness % 256

C15_Witness ==
    /\ codec.done /\ codec.instance = 300 /\ codec.brightness = -129
    /\ codec.tokens[1] = <<"0", "x", "2", "C", "7", "F">>

(***************************************************************************)
(* Properties of saveScene (SpecRefresh, SpecSaveLive, SpecStore) and of   *)
(* loadScene (SpecScenes).                                                 *)
(***************************************************************************)
\* The ids of the lights of ls that pass the room filter r, in the order of ls.
FilteredIds(ls, r) == Keys(SelectSeq(ls, LAMBDA l : r = NoRoom \/ l.room = r))

\* The saveScene call s as it was before this step (a call made by this
\* step has pushed nothing yet).
SaveBefore(s) == IF s <= Len(saves) THEN saves[s] ELSE NewSave(saves'[s].name, saves'[s].room)

\* C16: saveScene(name, r) on an initialized controller stores a scene whose
\* members are exactly the registry devices with room = r, in registry order
\* (all of them when r is null); each member records the id, name and room of
\* its device, and the device's currentBrightness when the loop visited it
\* (after the response to its query, or after the query timed out).
C16_SceneMembers ==
    [][\A s \in 1..Len(saves') :
          LET sv == saves'[s]
              old == SaveBefore(s)
          IN  /\ Len(sv.lightStates) > Len(old.lightStates) =>
                    /\ Len(sv.lightStates) = Len(old.lightStates) + 1
                    /\ LET m == sv.lightStates[Len(sv.lightStates)]
                           light == lights'[old.pos]
                       IN  /\ m.index = light.index /\ m.name = light.name
                           /\ m.room = light.room
                           /\ m.brightness = light.currentBrightness
              /\ (sv.promise = "true" /\ old.promise = "pending") =>
                    /\ HasName(scenes', sv.name)
                    /\ LET scene == scenes'[NamePos(scenes', sv.name)]
                       IN  /\ scene.room = sv.room
                           /\ scene.lights = sv.lightStates
                           /\ Keys(scene.lights) = FilteredIds(lights', sv.room)
                           /\ \A k \in 1..Len(scene.lights) :
                                 LET light == lights'[LightPos(lights', scene.lights[k].index)]
                                 IN  /\ scene.lights[k].name = light.name
                                     /\ scene.lights[k].room = light.room]_vars

\* C17: after any sequence of saveScene, importConfig and deleteScene calls
\* every scene of the scene store has a non-empty member list.
C17_MembersNonEmpty ==
    \A k \in 1..Len(scenes) : scenes[k].lights # <<>>

\* A step in which the 5 s timer of the query that the saveScene call s
\* awaits fires.
TimesOut(s) ==
    /\ s <= Len(saves) /\ saves[s].promise = "pending" /\ saves[s].query # 0
    /\ queries[saves[s].query].promise = "pending"
    /\ queries'[saves[s].query].promise = "rejected"

\* C18: saveScene is best-effort per device and always completes: when the
\* query for a device times out the save is not aborted, the member of that
\* device records the cached currentBrightness, the loop goes on to query the
\* next device or stores the scene, and every saveScene call made on the
\* initialized controller eventually resolves true, also when no query is
\* ever answered.
C18_SaveCompletes ==
    /\ [][\A s \in 1..MaxSaves : TimesOut(s) =>
            LET old == saves[s]
                sv == saves'[s]
                cached == lights[old.pos]
            IN  /\ sv.promise # "false"
                /\ Len(sv.lightStates) = Len(old.lightStates) + 1
                /\ sv.lightStates[Len(sv.lightStates)].index = cached.index
                /\ sv.lightStates[Len(sv.lightStates)].brightness = cached.currentBrightness
                /\ \/ sv.promise = "true" /\ HasName(scenes', sv.name)
                   \/ /\ sv.promise = "pending" /\ sv.query > old.query
                      /\ queries'[sv.query].promise = "pending"
                      /\ \E k \in 1..Len(sent') : sent'[k].cmd = "NEWMAR_DIMMER_BRIGHTNESS"]_vars
    /\ \A s \in 1..MaxSaves :
          (Len(saves) >= s /\ saves[s].promise = "pending")
              ~> (Len(saves) >= s /\ saves[s].promise = "true")

C18_Witness ==
    \E s \in 1..Len(saves) :
        /\ saves[s].promise = "true"
        /\ Len(saves[s].asked) >= 2
        /\ \A k \in 1..Len(saves[s].asked) : queries[saves[s].asked[k]].promise = "rejected"
        /\ Len(saves[s].lightStates) = Len(saves[s].asked)

\* The members of the scene the last loadScene call named whose device is
\* in the registry.
AppliedMembers ==
    SelectSeq(scenes[NamePos(scenes, lastOp.key)].lights,
              LAMBDA m : HasLight(lights, m.index))

\* The number a caller reads from a returned boolean.
ToNumber(b) == IF b THEN 1 ELSE 0

\* C19 as the specification states it: loadScene on an existing scene
\* returns the number of members applied, which is less than the member
\* count when a member's device is missing.
C19_ReturnsAppliedCount ==
    (lastOp.op = "loadScene" /\ HasName(scenes, lastOp.key)) =>
        /\ ToNumber(lastOp.ret) = Len(AppliedMembers)
        /\ Len(AppliedMembers) < Len(scenes[NamePos(scenes, lastOp.key)].lights) =>
              ToNumber(lastOp.ret) < Len(scenes[NamePos(scenes, lastOp.key)].lights)

\* C19: loadScene on an existing scene sends one command for every member
\* whose device id is in the registry, in member order, skips the members
\* whose id is missing, counts the members applied and returns true exactly
\* when that count is above 0 (a boolean, not the count).
C19_ReturnsAnyApplied ==
    (lastOp.op = "loadScene" /\ HasName(scenes, lastOp.key)) =>
        /\ lastOp.arg = Len(AppliedMembers)
        /\ lastOp.ret = (Len(AppliedMembers) > 0)
        /\ Len(Commands) = Len(AppliedMembers)
        /\ \A k \in 1..Len(AppliedMembers) :
              InstanceByte(Commands[k]) = AppliedMembers[k].index % 256

C19_Witness ==
    /\ lastOp.op = "loadScene" /\ HasName(scenes, lastOp.key)
    /\ lastOp.ret /\ lastOp.arg = 1
    /\ Len(scenes[NamePos(scenes, lastOp.key)].lights) = 2

\* The level loadScene leaves on the light with the id idx: the clamped level
\* of the last member of ms that names idx (NaN: no member names it).
RECURSIVE LoadedLevel(_, _)
LoadedLevel(ms, idx) ==
    IF ms = <<>> THEN NaN
    ELSE LET m == ms[Len(ms)]
         IN  IF m.index = idx
             THEN (IF m.brightness < 0 THEN 0
                   ELSE IF m.brightness > 100 THEN 100 ELSE m.brightness)
             ELSE LoadedLevel(SubSeq(ms, 1, Len(ms) - 1), idx)

\* C20: loadScene adds, removes and re-keys no registry device and leaves the
\* scene store (and schedules, timers and stored data) unchanged: the devices
\* named by members of the scene get the clamped saved level as their
\* currentBrightness, every other device and every other field stays.
C20_LoadSceneFrame ==
    [][lastOp'.op = "loadScene" =>
          /\ UNCHANGED <<scenes, schedules, activeSchedules, scheduleIntervals,
                         intervals, storage, isInitialized, listeners, saves>>
          /\ Keys(lights') = Keys(lights)
          /\ \A k \in 1..Len(lights) :
                LET ms == IF HasName(scenes, lastOp'.key)
                          THEN scenes[NamePos(scenes, lastOp'.key)].lights ELSE <<>>
                    level == LoadedLevel(ms, lights[k].index)
                IN  IF level = NaN THEN lights'[k] = lights[k]
                    ELSE lights'[k] = [lights[k] EXCEPT !.currentBrightness = level]]_vars

C20_Witness ==
    /\ lastOp.op = "loadScene" /\ lastOp.key = "night" /\ lastOp.ret
    /\ Len(lights) = 2
    /\ lights[LightPos(lights, 2)].currentBrightness = 100
    /\ lights[LightPos(lights, 1)].currentBrightness = 40

(***************************************************************************)
(* Properties of the schedule evaluator (SpecTicks).                       *)
(***************************************************************************)
\* The clock as text, HH:MM with two digits each.
HHMM(c) ==
    Digits[(getHours(c) \div 10) + 1] \o Digits[(getHours(c) % 10) + 1] \o ":"
        \o Digits[(getMinutes(c) \div 10) + 1] \o Digits[(getMinutes(c) % 10) + 1]

\* The events of evs whose time is the HH:MM of the clock c and whose days
\* name the weekday of c.
MatchingAt(evs, c) ==
    SelectSeq(evs, LAMBDA e : /\ e.time = HHMM(c)
                              /\ \E k \in 1..Len(e.days) :
                                    e.days[k] = DayTags[getDay(c) + 1])
Matching(evs) == MatchingAt(evs, clock)

\* The last run of an interval callback, and the schedule it evaluated.
LastRun == ticks[Len(ticks)]
TickedSchedule == schedules[NamePos(schedules, lastOp.key)]
Monday0700 == getDay(clock) = 1 /\ getHours(clock) = 7 /\ getMinutes(clock) = 0

\* C21: a tick of an enabled schedule dispatches the actions of exactly the
\* events whose time is the current zero-padded HH:MM and whose days contain
\* the current weekday; the schedule with the single event
\* 07:00/mon/lights_off, ticked on Monday 07:00, dispatches lights_off once
\* (one command per registry device, every level 0 afterwards), and ticked
\* at another minute or on Tuesday it dispatches and sends nothing.
C21_TickMatches ==
    (lastOp.op = "tick" /\ HasName(schedules, lastOp.key) /\ TickedSchedule.enabled) =>
        /\ LastRun.actions =
              [k \in 1..Len(Matching(TickedSchedule.events)) |->
                  Matching(TickedSchedule.events)[k].action]
        /\ TickedSchedule.events = ScheduleEvents(MorningEvents) =>
              IF Monday0700
              THEN /\ LastRun.actions = <<"lights_off">>
                   /\ Len(Commands) = Len(lights)
                   /\ \A k \in 1..Len(lights) : lights[k].currentBrightness = 0
              ELSE /\ LastRun.actions = <<>>
                   /\ sent = <<>>

C21_Witness ==
    /\ lastOp.op = "tick" /\ HasName(schedules, lastOp.key) /\ TickedSchedule.enabled
    /\ TickedSchedule.events = ScheduleEvents(MorningEvents)
    /\ Monday0700
    /\ Len(lights) = 2 /\ Len(Commands) = 2

\* C22: after any sequence of createSchedule, activateSchedule,
\* deactivateSchedule, deleteSchedule and cleanup calls every schedule name
\* has at most one live interval timer, the live timers are those recorded
\* in scheduleIntervals, activeSchedules is the set of names that have a
\* timer in scheduleIntervals, and activateSchedule on an active name starts
\* no timer.
C22_OneTimerPerName ==
    /\ [](/\ \A r1, r2 \in intervals : r1.name = r2.name => r1 = r2
          /\ {[name |-> r.name, id |-> r.id] : r \in intervals} =
                {scheduleIntervals[k] : k \in 1..Len(scheduleIntervals)}
          /\ activeSchedules =
                {scheduleIntervals[k].name : k \in 1..Len(scheduleIntervals)})
    /\ [][(lastOp'.op = "activateSchedule" /\ lastOp'.key \in activeSchedules) =>
              /\ lastOp'.ret
              /\ intervals' = intervals
              /\ scheduleIntervals' = scheduleIntervals]_vars

C22_Witness ==
    /\ lastOp.op = "deleteSchedule" /\ ~HasName(schedules, lastOp.key)
    /\ activeSchedules = TimerNames \ {lastOp.key}
    /\ \E r \in intervals : intervals = {r} /\ r.id = 2 /\ r.name # lastOp.key

\* C23: deactivateSchedule(name) returning true leaves the schedule and its
\* enabled flag as they are and no timer for name; only activateSchedule(name)
\* makes name active again; every run of the evaluator is for a name that is
\* active, and commands are sent by such runs only: after the deactivation
\* no tick evaluates the schedule and none of its events is dispatched
\* until it is activated again.
C23_DeactivatedStaysSilent ==
    [][/\ (lastOp'.op = "deactivateSchedule" /\ lastOp'.ret) =>
             /\ schedules' = schedules
             /\ lastOp'.key \notin activeSchedules'
             /\ \A r \in intervals' : r.name # lastOp'.key
       /\ \A n \in activeSchedules' \ activeSchedules :
             lastOp'.op = "activateSchedule" /\ lastOp'.key = n
       /\ \A r \in intervals' : r.name \in activeSchedules'
       /\ lastOp'.op = "tick" => lastOp'.key \in activeSchedules
       /\ ticks' # ticks => lastOp'.op = "tick"
       /\ sent' # <<>> =>
             \/ lastOp'.op = "tick"
             \/ \A k \in 1..Len(sent') : sent'[k].cmd \notin {DimmerCmd, SwitchCmd}]_vars

C23_Witness ==
    /\ lastOp.op = "none"
    /\ ticks # <<>>
    /\ LastRun.name \notin activeSchedules
    /\ intervals = {}
    /\ clock.t >= LastRun.t + Period
    /\ HasName(schedules, LastRun.name)
    /\ LET schedule == schedules[NamePos(schedules, LastRun.name)]
       IN  schedule.enabled /\ Matching(schedule.events) # <<>>

\* C24: activateSchedule on a schedule whose enabled flag is false returns
\* true and starts its timer; a run of the evaluator for a schedule that is
\* not enabled dispatches no action, sends nothing and changes no light,
\* whatever the clock shows, and the timer stays live for the next run.
C24_DisabledTicksIdle ==
    [][/\ (/\ lastOp'.op = "activateSchedule"
            /\ HasName(schedules, lastOp'.key)
            /\ ~schedules[NamePos(schedules, lastOp'.key)].enabled) =>
               /\ lastOp'.ret
               /\ lastOp'.key \in activeSchedules'
               /\ \E r \in intervals' : r.name = lastOp'.key
       /\ (/\ lastOp'.op = "tick"
            /\ HasName(schedules, lastOp'.key)
            /\ ~schedules[NamePos(schedules, lastOp'.key)].enabled) =>
               /\ ticks'[Len(ticks')].actions = <<>>
               /\ sent' = <<>>
               /\ lights' = lights
               /\ \E r \in intervals' :
                     r.name = lastOp'.key /\ r.n = ticks'[Len(ticks')].n]_vars

C24_Witness ==
    /\ lastOp.op = "tick" /\ HasName(schedules, lastOp.key)
    /\ ~TickedSchedule.enabled
    /\ Monday0700
    /\ Matching(TickedSchedule.events) # <<>>
    /\ HasName(scenes, TickedSchedule.events[1].scene)
    /\ Len(lights) = 2
    /\ LastRun.n = 2

(***************************************************************************)
(* Properties of export and import (SpecExport).                           *)
(***************************************************************************)
\* C25: importing an exported file into an empty controller gives the
\* scenes and schedules that were exported: the same names in the same
\* order, with identical members and events; importing the same file once
\* more changes nothing.
C25_ExportImportRoundTrip ==
    [][(lastOp'.op = "importConfig" /\ lastOp'.key = "file") =>
          /\ (scenes = <<>> /\ schedules = <<>>) =>
                /\ scenes' = file.from.scenes
                /\ schedules' = file.from.schedules
          /\ (scenes = file.scenes /\ schedules = file.schedules) =>
                /\ scenes' = scenes
                /\ schedules' = schedules]_vars

(***************************************************************************)
(* Properties of cleanup (SpecCleanup).                                    *)
(***************************************************************************)
\* C26: once cleanup() has returned, activeSchedules and scheduleIntervals
\* are empty, no handler the controller registered runs again (the pending
\* one-shot waiters of discovery and of brightness queries included) and no
\* schedule evaluator runs again.
C26_CleanupSilences ==
    /\ [](cleaned => activeSchedules = {} /\ scheduleIntervals = <<>>)
    /\ [][cleaned => fired' = fired /\ ticks' = ticks]_vars

(***************************************************************************)
(* Partial discovery (SpecFresh).                                          *)
(***************************************************************************)
\* C27: on a fresh controller, when the count response had arrived before
\* the 10 s timer fired, the promise of initialize() is resolved with the
\* devices registered so far and isInitialized is true, also when fewer
\* devices than counted were registered; the promise is rejected only when
\* the count request had not been answered.
C27_PartialDiscoveryResolves ==
    (Len(calls) = 1 /\ ~calls[1].timer) =>
        /\ calls[1].countedAtTimer =>
              /\ calls[1].promise = "resolved"
              /\ isInitialized
        /\ calls[1].promise = "rejected" => ~calls[1].countedAtTimer

(***************************************************************************)
(* The order of the control commands (SpecDispatch).                       *)
(***************************************************************************)
\* The instance bytes of the control commands the last step sent, in order.
CommandBytes == [k \in 1..Len(Commands) |-> InstanceByte(Commands[k])]
Bytes(ids) == [k \in 1..Len(ids) |-> ids[k] % 256]

\* The ids the events evs address when they are dispatched one after the
\* other: every registry device for lights_off and lights_on, the members
\* of the scene whose device is registered for load_scene, none otherwise.
RECURSIVE ExpectedIds(_)
ExpectedIds(evs) ==
    IF evs = <<>> THEN <<>>
    ELSE LET e == Head(evs)
             ids == CASE e.action \in {"lights_off", "lights_on"} -> Keys(lights)
                      [] e.action = "load_scene" /\ HasName(scenes, e.scene) ->
                            Keys(SelectSeq(scenes[NamePos(scenes, e.scene)].lights,
                                           LAMBDA m : HasLight(lights, m.index)))
                      [] OTHER -> <<>>
         IN  ids \o ExpectedIds(Tail(evs))

\* C28: loadScene sends one command per member whose device is registered,
\* in member order; allLightsOff and allLightsOn send one command per
\* registry device in registry order and leave every currentBrightness at 0
\* and at 100; a run of the evaluator dispatches the actions of all matching
\* events in the order of the event list, an unknown action or a load_scene
\* without a scene not keeping the later events from being dispatched.
C28_CommandOrder ==
    /\ (lastOp.op = "loadScene" /\ HasName(scenes, lastOp.key)) =>
          /\ CommandBytes = Bytes(Keys(AppliedMembers))
          /\ Len(Commands) <= Len(scenes[NamePos(scenes, lastOp.key)].lights)
    /\ lastOp.op = "allLightsOff" =>
          /\ CommandBytes = Bytes(Keys(lights))
          /\ \A k \in 1..Len(lights) : lights[k].currentBrightness = 0
    /\ lastOp.op = "allLightsOn" =>
          /\ CommandBytes = Bytes(Keys(lights))
          /\ \A k \in 1..Len(lights) : lights[k].currentBrightness = 100
    /\ (lastOp.op = "tick" /\ HasName(schedules, lastOp.key) /\ TickedSchedule.enabled) =>
          /\ CommandBytes = Bytes(ExpectedIds(Matching(TickedSchedule.events)))
          /\ Len(LastRun.actions) = Len(Matching(TickedSchedule.events))
          /\ \A k \in 1..Len(LastRun.actions) :
                LastRun.actions[k] = Matching(TickedSchedule.events)[k].action

C28_Witness ==
    /\ lastOp.op = "tick" /\ HasName(schedules, lastOp.key) /\ TickedSchedule.enabled
    /\ LastRun.actions = <<"dim", "load_scene", "load_scene", "lights_on">>
    /\ Keys(lights) = <<1, 2>>
    /\ CommandBytes = <<1, 2, 1, 2>>
    /\ \A k \in 1..Len(lights) : lights[k].currentBrightness = 100

(***************************************************************************)
(* The cadence of the evaluator (SpecTicks).                               *)
(***************************************************************************)
\* The wall-clock minute a run of the evaluator fell into.
MinuteOf(run) == TotalMinutes([clock EXCEPT !.t = run.t])
\* The runs of the evaluator for schedules that are stored and enabled (the
\* schedules do not change once the clock has moved).
EnabledRuns ==
    {k \in 1..Len(ticks) :
        /\ HasName(schedules, ticks[k].name)
        /\ schedules[NamePos(schedules, ticks[k].name)].enabled}

\* C29: every run of the evaluator of an enabled schedule dispatches the
\* events that match the minute the run falls into, whatever earlier runs
\* have dispatched: two runs within one matching minute both dispatch the
\* event, and a run in a later minute dispatches nothing for a minute no run
\* fell into.
C29_NoDedupNoCatchUp ==
    /\ \A k \in EnabledRuns :
          LET events == schedules[NamePos(schedules, ticks[k].name)].events
              due == MatchingAt(events, [clock EXCEPT !.t = ticks[k].t])
          IN  ticks[k].actions = [i \in 1..Len(due) |-> due[i].action]
    /\ \A j, k \in EnabledRuns :
          (ticks[j].name = ticks[k].name /\ MinuteOf(ticks[j]) = MinuteOf(ticks[k])) =>
              ticks[j].actions = ticks[k].actions

C29_Witness ==
    \E j, k \in EnabledRuns :
        /\ j < k
        /\ ticks[j].id = ticks[k].id /\ ticks[j].at = ticks[k].at
        /\ MinuteOf(ticks[j]) = MinuteOf(ticks[k])
        /\ ticks[j].actions = <<"lights_off">>
        /\ ticks[k].actions = <<"lights_off">>

\* The runs of one timer up to run k were all served the moment they were due.
Punctual(k) ==
    \A j \in 1..k :
        (ticks[j].id = ticks[k].id /\ ticks[j].at = ticks[k].at) =>
            ticks[j].t = ticks[j].due

\* C30: activateSchedule dispatches nothing and evaluates nothing itself; the
\* timer it starts is first due one full period after the activation instant,
\* its n-th run is never earlier than n periods after that instant, and is
\* exactly n periods after it when the timer is served on time, wherever in
\* the wall-clock minute the activation fell.
C30_ActivationCadence ==
    /\ [](\A r \in intervals : r.n = 0 => r.due = r.at + Period)
    /\ [](\A k \in 1..Len(ticks) :
            /\ ticks[k].n >= 1
            /\ ticks[k].t >= ticks[k].due
            /\ ticks[k].due >= ticks[k].at + ticks[k].n * Period
            /\ (ticks[k].n = 1 => ticks[k].due = ticks[k].at + Period)
            /\ (Punctual(k) => ticks[k].t = ticks[k].at + ticks[k].n * Period))
    /\ [][\A r \in intervals' :
            (r.id \notin {q.id : q \in intervals}) =>
                /\ r.at = clock.t /\ r.due = clock.t + Period /\ r.n = 0
                /\ sent' = <<>> /\ ticks' = ticks /\ lights' = lights
                /\ fired' = fired]_vars

C30_Witness ==
    \E j, k \in 1..Len(ticks) :
        /\ ticks[j].id = ticks[k].id /\ ticks[j].at = ticks[k].at
        /\ ticks[j].at % SlotsPerMinute # 0
        /\ ticks[j].n = 1 /\ ticks[j].t = ticks[j].at + Period
        /\ ticks[k].n = 2 /\ ticks[k].t = ticks[k].at + 2 * Period


(***************************************************************************)
(* Creating a schedule again (SpecRecreate).                               *)
(***************************************************************************)
\* The event list of EventLists a createSchedule call with n events was given.
GivenEvents(n) == CHOOSE evs \in EventLists : Len(evs) = n
\* What a stored event has to be for a given one.
StoredAs(e) ==
    [time |-> e.time,
     days |-> IF e.hasDays THEN e.days
              ELSE <<"mon", "tue", "wed", "thu", "fri", "sat", "sun">>,
     scene |-> e.scene,
     action |-> IF e.action = Undefined THEN "load_scene" ELSE e.action]

\* C31: createSchedule(name, events) stores the events in the given order
\* with the defaults filled in and enabled = true, replaces a schedule of the
\* same name where it stands and leaves the other schedules, activeSchedules
\* and the timers alone; a run of the evaluator dispatches the events the
\* schedule holds at the time of the run.
C31_CreateKeepsEvaluator ==
    /\ [][lastOp'.op = "createSchedule" =>
            LET name == lastOp'.key
                given == GivenEvents(lastOp'.arg)
                pos == IF HasName(schedules, name) THEN NamePos(schedules, name)
                       ELSE Len(schedules) + 1
            IN  /\ lastOp'.ret
                /\ Len(schedules') = (IF HasName(schedules, name) THEN Len(schedules)
                                      ELSE Len(schedules) + 1)
                /\ \A k \in 1..Len(schedules) : k # pos => schedules'[k] = schedules[k]
                /\ schedules'[pos].name = name
                /\ schedules'[pos].enabled
                /\ Len(schedules'[pos].events) = Len(given)
                /\ \A i \in 1..Len(given) : schedules'[pos].events[i] = StoredAs(given[i])
                /\ activeSchedules' = activeSchedules
                /\ scheduleIntervals' = scheduleIntervals
                /\ intervals' = intervals
                /\ ticks' = ticks
                /\ sent' = <<>>]_vars
    /\ [][lastOp'.op = "tick" =>
            LET due == Matching(schedules[NamePos(schedules, lastOp'.key)].events)
            IN  /\ HasName(schedules, lastOp'.key)
                /\ ticks'[Len(ticks')].actions = [i \in 1..Len(due) |-> due[i].action]]_vars

C31_Witness ==
    \E j, k \in 1..Len(ticks) :
        /\ j < k
        /\ ticks[j].id = ticks[k].id /\ ticks[j].at = ticks[k].at
        /\ MinuteOf(ticks[j]) = MinuteOf(ticks[k])
        /\ Len(ticks[j].actions) = 4
        /\ ticks[k].actions = <<"lights_off">>
        /\ Cardinality(intervals) = 1


(***************************************************************************)
(* Stored scenes are snapshots (SpecSnapshot).                             *)
(***************************************************************************)
\* The saveScene calls that return true in this step.
Completing ==
    {s \in 1..Len(saves') :
        /\ saves'[s].promise = "true"
        /\ (s > Len(saves) \/ saves[s].promise = "pending")}

\* C32: a saveScene call that completes puts its own members, and nothing of
\* an earlier scene of that name, under the name and leaves the other scenes
\* alone; a step in which no saveScene completes and no file is imported (a
\* control call, a brightness response, a timer, a discovery response)
\* leaves every stored scene as it is.
C32_ScenesAreSnapshots ==
    /\ [][\A s \in Completing :
            LET name == saves'[s].name
            IN  /\ Cardinality(Completing) = 1
                /\ HasName(scenes', name)
                /\ scenes'[NamePos(scenes', name)] =
                      [name |-> name, room |-> saves'[s].room,
                       lights |-> saves'[s].lightStates]
                /\ \A k \in 1..Len(scenes) :
                      scenes[k].name # name => scenes'[k] = scenes[k]
                /\ Len(scenes') = (IF HasName(scenes, name) THEN Len(scenes)
                                   ELSE Len(scenes) + 1)]_vars
    /\ [][(Completing = {} /\ lastOp'.op # "importConfig") => scenes' = scenes]_vars

C32_Witness ==
    /\ lastOp.op = "allLightsOff"
    /\ \E s \in 1..Len(saves) : saves[s].promise = "true" /\ saves[s].name = "evening"
    /\ Len(calls) = 2
    /\ Len(scenes) = 2
    /\ scenes[1].name = "evening"
    /\ Len(scenes[1].lights) = 1
    /\ scenes[1].lights[1].index = 1
    /\ scenes[1].lights[1].brightness = 40
    /\ \E k \in 1..Len(lights) : lights[k].index = 1 /\ lights[k].currentBrightness = 0


(***************************************************************************)
(* The size of the registry when discovery resolves (SpecFresh).           *)
(***************************************************************************)
\* C33: when an initialize() call resolves after a count response of N, the
\* registry holds exactly N devices, with pairwise distinct ids.
C33_RegistryHoldsCount ==
    [][\A c \in 1..Len(calls) :
          (calls[c].promise = "pending" /\ calls'[c].promise = "resolved") =>
              /\ Len(lights') = calls'[c].totalLights
              /\ \A j, k \in 1..Len(lights') :
                    lights'[j].index = lights'[k].index => j = k]_vars


(***************************************************************************)
(* The instance byte of the commands of two devices (SpecInstances).       *)
(***************************************************************************)
\* C34: two control calls that follow each other, for two registered devices
\* with different ids and the same brightness, send different commands.
C34_DistinctInstanceBytes ==
    [][(/\ lastOp.op = "setLightBrightness" /\ lastOp.ret
        /\ lastOp'.op = "setLightBrightness" /\ lastOp'.ret
        /\ lastOp.id # lastOp'.id
        /\ lastOp.arg = lastOp'.arg) =>
            sent'[1].arg # sent[1].arg]_vars


(***************************************************************************)
(* The connection (SpecConnection) and the controllers of the page         *)
(* (SpecReinit).                                                           *)
(***************************************************************************)
\* Socket s is closed, or opened, by this step.
Closes(s) == s <= Len(page.socks) /\ page.socks[s] # "closed" /\ page'.socks[s] = "closed"
Opens(s) == s <= Len(page.socks) /\ page.socks[s] = "connecting" /\ page'.socks[s] = "open"

\* C35: reconnectAttempts never exceeds maxReconnectAttempts; a close event
\* counts and schedules one connect() while reconnectAttempts is below the
\* maximum and schedules nothing once it is reached; nothing else schedules
\* a connect(); every open resets reconnectAttempts to 0.
C35_ReconnectBounded ==
    /\ [](page.reconnectAttempts <= maxReconnectAttempts)
    /\ [][\A s \in 1..MaxSockets :
            Closes(s) =>
                IF page.reconnectAttempts < maxReconnectAttempts
                THEN /\ page'.reconnectAttempts = page.reconnectAttempts + 1
                     /\ page'.connectTimers = page.connectTimers + 1
                ELSE /\ page'.reconnectAttempts = page.reconnectAttempts
                     /\ page'.connectTimers = page.connectTimers]_vars
    /\ [][page'.connectTimers > page.connectTimers =>
            \E s \in 1..MaxSockets : Closes(s)]_vars
    /\ [][\A s \in 1..MaxSockets : Opens(s) => page'.reconnectAttempts = 0]_vars

C35_Witness ==
    /\ Len(page.socks) = maxReconnectAttempts + 1
    /\ \A s \in 1..Len(page.socks) : page.socks[s] = "closed"
    /\ page.reconnectAttempts = maxReconnectAttempts
    /\ page.connectTimers = 0
    /\ page.pingTimers = 0

\* C36: the close event of a socket that disconnect() has closed schedules
\* no connect().
C36_DisconnectStays ==
    [][\A s \in 1..MaxSockets :
          (s <= Len(page.socks) /\ page.socks[s] = "closing" /\ Closes(s)) =>
              page'.connectTimers = page.connectTimers]_vars

\* C37: at most one interval timer of the ping is live.
C37_OnePingTimer == page.pingTimers <= 1

\* C38: a controller the page no longer refers to has no live evaluator, so
\* there is at most one evaluator per schedule name on the page.
C38_OneEvaluatorPerName ==
    \A k \in 1..Len(page.old) : page.old[k].intervals = {}


(***************************************************************************)
(* The stored entry and the maps in memory (SpecPersist).                  *)
(***************************************************************************)
\* C39: after a saveScene, deleteScene, createSchedule or importConfig that
\* succeeded the entry 'rv_lighting_data' holds the scenes and schedules that
\* are in memory, and a controller constructed from it holds the same scenes
\* and schedules, with no active schedule and no timer.
C39_StorageMirrorsMemory ==
    /\ [][(\/ Completing # {}
           \/ (lastOp'.op \in {"deleteScene", "createSchedule", "importConfig"}
               /\ lastOp'.ret)) =>
              /\ storage'.present
              /\ storage'.scenes = scenes'
              /\ storage'.schedules = schedules']_vars
    /\ [][lastOp'.op = "reload" =>
              /\ scenes' = scenes
              /\ schedules' = schedules
              /\ activeSchedules' = {}
              /\ scheduleIntervals' = <<>>
              /\ intervals' = {}]_vars


(***************************************************************************)
(* The server's per-item persistence: POST /scenes and POST /schedules.   *)
(* A handler runs to its first await (the read of the data file), then to *)
(* its second (the write), then answers; other handlers run in between.   *)
(***************************************************************************)
Collections == {"scenes", "schedules"}
ItemNames == {"evening", "night"}
\* A request body that passed validation: its name and the rest of it.
Items == [name : ItemNames, body : {1}]

\* let lightingData = { scenes: [], schedules: [] }
NoData == [scenes |-> <<>>, schedules |-> <<>>]

\* findIndex(s => s.name === req.body.name); then replace or push.
addOrUpdate(list, item) ==
    IF \E i \in 1..Len(list) : list[i].name = item.name
    THEN LET sceneIndex == CHOOSE i \in 1..Len(list) :
                              /\ list[i].name = item.name
                              /\ \A j \in 1..(i - 1) : list[j].name # item.name
         IN  [list EXCEPT ![sceneIndex] = item]
    ELSE Append(list, item)

\* The variables of the page, which the server does not touch.
pageVars == <<lights, isInitialized, listeners, calls, queries, fired, sent, lastOp,
              scenes, schedules, activeSchedules, scheduleIntervals, intervals,
              saves, storage, codec, clock, ticks, cleaned, file, page>>

\* A request arrives; the handler starts fs.readFile and awaits it.
PostItem(coll, item) ==
    /\ Len(server.requests) < MaxRequests
    /\ server' = [server EXCEPT !.requests =
                     Append(@, [coll |-> coll, body |-> item, at |-> "readFile",
                                lightingData |-> NoData])]
    /\ UNCHANGED pageVars

\* The read of request r settles: the handler parses the text (or keeps the
\* empty default when the file does not exist), adds or replaces its item,
\* starts fs.writeFile and awaits it.
ReadFile(r) ==
    /\ server.requests[r].at = "readFile"
    /\ LET q == server.requests[r]
           data == IF server.dataFile.present
                   THEN [scenes |-> server.dataFile.scenes,
                         schedules |-> server.dataFile.schedules]
                   ELSE NoData
           next == [data EXCEPT ![q.coll] = addOrUpdate(@, q.body)]
       IN  server' = [server EXCEPT !.requests[r] =
                         [q EXCEPT !.at = "writeFile", !.lightingData = next]]
    /\ UNCHANGED pageVars

\* The write of request r settles: the file holds what the handler built
\* from its own read, and the handler answers success.
WriteFile(r) ==
    /\ server.requests[r].at = "writeFile"
    /\ LET q == server.requests[r]
       IN  server' = [server EXCEPT
                         !.dataFile = [present |-> TRUE,
                                       scenes |-> q.lightingData.scenes,
                                       schedules |-> q.lightingData.schedules],
                         !.requests[r] = [q EXCEPT !.at = "answered"]]
    /\ UNCHANGED pageVars

NextServer ==
    \/ \E coll \in Collections, item \in Items : PostItem(coll, item)
    \/ \E r \in 1..Len(server.requests) : ReadFile(r)
    \/ \E r \in 1..Len(server.requests) : WriteFile(r)

SpecServer == Init /\ [][NextServer]_vars

\* C40: when two POST requests to one collection with different names have
\* both been answered, the data file contains both items.
C40_NoLostUpdate ==
    \A r1, r2 \in 1..Len(server.requests) :
        LET a == server.requests[r1]
            b == server.requests[r2]
        IN  (/\ a.at = "answered" /\ b.at = "answered"
             /\ a.coll = b.coll
             /\ a.body.name # b.body.name)
            => \A q \in {a, b} :
                   \E i \in 1..Len(server.dataFile[q.coll]) :
                       server.dataFile[q.coll][i] = q.body

====
